---- MODULE Spec2Model ----
(***************************************************************************)
(* Model of the coordinate/geometry engine of the hydraulic network        *)
(* editor: hydraulic objects and their ports, the scale propagation, the   *)
(* transform controller (rotate / align / flip), the orthogonal pipe       *)
(* router and the interactive pipe construction.                           *)
(*                                                                         *)
(* Numbers.  The program computes with floats.  Here every scale is an     *)
(* integer number of 1/ScaleDen and every scene coordinate an integer      *)
(* number of 1/ScaleDen pixel, so scale * template coordinate is exact.    *)
(* Rotations are by multiples of 90 degrees (rotate_left_90 and            *)
(* rotate_right_90 are the only callers of rotate_objects); cos and sin    *)
(* of those angles are taken at the resolution 1e-6 of the rotation        *)
(* closure property, where cos(radians(90)) = 6.1e-17 is 0.                *)
(***************************************************************************)
EXTENDS Integers, Sequences, FiniteSets, TLC

\* ------------------------------------------------------------------
\* Bounds of the model
\* ------------------------------------------------------------------
\* hydraulic objects ever constructed in one behaviour
MaxObjects == 2
\* entries the transformation history may hold before the transform
\* requests of a specification stop (caps rotation and history growth)
MaxOps == 2
\* waypoints of one interactive construction
MaxWaypoints == 2

\* pipes registered in one behaviour (pipe_counter only grows)
MaxPipes == 2
\* components of the scenes in which lists of three are aligned
MaxAlignObjects == 3
\* transformations of one behaviour that fills the history and goes on
MaxHistoryOps == 53
\* transformations at the start of such a behaviour that may be of any kind
VariedOps == 2

\* handles (components ever constructed) in the scenario of the registry
MaxRegistryObjects == 4

\* ------------------------------------------------------------------
\* Fixed-point numbers and points
\* ------------------------------------------------------------------
\* scales are counted in tenths (min_objects_scale = 0.1 is one unit),
\* coordinates in tenths of a pixel
ScaleDen == 10

Px(n) == n * ScaleDen

Pt(x, y) == <<x, y>>

X(p) == p[1]

Y(p) == p[2]

PAdd(p, q) == <<p[1] + q[1], p[2] + q[2]>>

Abs(n) == IF n < 0 THEN -n ELSE n

Min(a, b) == IF a < b THEN a ELSE b

Max(a, b) == IF a > b THEN a ELSE b

\* math.cos(math.radians(a)) and math.sin(math.radians(a)) for the angles
\* the toolbar requests
Cos(a) == CASE a % 360 = 0 -> 1 [] a % 360 = 90 -> 0 [] a % 360 = 180 -> -1 [] a % 360 = 270 -> 0

Sin(a) == CASE a % 360 = 0 -> 0 [] a % 360 = 90 -> 1 [] a % 360 = 180 -> 0 [] a % 360 = 270 -> -1

\* ------------------------------------------------------------------
\* config/svg_port_parser.py
\* A float of a drawing is a whole number of units: a coordinate of the
\* drawing counts 1/den of a drawing unit (den is given with the numbers),
\* a size or a position in pixels counts hundredths of a pixel.
\* ------------------------------------------------------------------
\* <<q, r>> with a * b = q * c + r and 0 <= r < c, for a, b >= 0 and c > 0,
\* by halving b, so that no intermediate number exceeds 2 * c
RECURSIVE MulDivMod(_, _, _)
MulDivMod(a, b, c) ==
    IF b = 0
    THEN <<0, 0>>
    ELSE LET half == MulDivMod(a, b \div 2, c)
             twice == IF 2 * half[2] >= c
                      THEN <<2 * half[1] + 1, 2 * half[2] - c>>
                      ELSE <<2 * half[1], 2 * half[2]>>
             odd == IF b % 2 = 1 THEN <<a \div c, a % c>> ELSE <<0, 0>>
         IN  IF twice[2] >= c - odd[2]
             THEN <<twice[1] + odd[1] + 1, twice[2] - (c - odd[2])>>
             ELSE <<twice[1] + odd[1], twice[2] + odd[2]>>

\* a rounding that always goes down
Nearest_truncating(a, b, c) ==
    LET qr == MulDivMod(Abs(a), Abs(b), Abs(c))
        negative == (a < 0) # ((b < 0) # (c < 0))
    IN  IF negative THEN {-qr[1]} ELSE {qr[1]}

\* round(a / c * b, 2) counted in hundredths, for b already in hundredths:
\* the whole number nearest to a * b / c. The float product differs from
\* the exact one by far less than the distance of two inputs, so the
\* nearest number is the exact one, except half-way between two numbers,
\* where the float may lie on either side: both are possible there.
Nearest(a, b, c) ==
    LET qr == MulDivMod(Abs(a), Abs(b), Abs(c))
        negative == (a < 0) # ((b < 0) # (c < 0))
        up == IF 2 * qr[2] < Abs(c) THEN {qr[1]}
              ELSE IF 2 * qr[2] > Abs(c) THEN {qr[1] + 1}
              ELSE {qr[1], qr[1] + 1}
    IN  IF negative THEN {-n : n \in up} ELSE up

\* SVGPortParser._convert_svg_to_qt_coordinates raises ZeroDivisionError
ZeroDivision(svg_viewbox) == svg_viewbox[3] = 0 \/ svg_viewbox[4] = 0

\* SVGPortParser._convert_svg_to_qt_coordinates(svg_pos, svg_viewbox,
\* target_size), for a viewBox of non-zero size: the positions it can
\* return, in hundredths of a pixel
_convert_svg_to_qt_coordinates(svg_pos, svg_viewbox, target_size) ==
    Nearest(svg_pos[1] - svg_viewbox[1], target_size[1], svg_viewbox[3])
    \X Nearest(svg_pos[2] - svg_viewbox[2], target_size[2], svg_viewbox[4])

\* A string the parser examines is the sequence of its characters.
UpperLetters == <<"A", "B", "C", "D", "E", "F", "G", "H", "I", "J", "K", "L", "M", "N", "O", "P", "Q", "R", "S", "T", "U", "V", "W", "X", "Y", "Z">>

LowerLetters == <<"a", "b", "c", "d", "e", "f", "g", "h", "i", "j", "k", "l", "m", "n", "o", "p", "q", "r", "s", "t", "u", "v", "w", "x", "y", "z">>

Digits == <<"0", "1", "2", "3", "4", "5", "6", "7", "8", "9">>

PORT == <<"p", "o", "r", "t">>

\* str.lower()
Lower(s) ==
    [i \in 1..Len(s) |->
        IF \E j \in 1..Len(UpperLetters) : UpperLetters[j] = s[i]
        THEN LowerLetters[CHOOSE j \in 1..Len(UpperLetters) : UpperLetters[j] = s[i]]
        ELSE s[i]]

\* sub in s
Contains(s, sub) ==
    \E i \in 0..(Len(s) - Len(sub)) : SubSeq(s, i + 1, i + Len(sub)) = sub

IsDigit(ch) == \E j \in 1..Len(Digits) : Digits[j] = ch

\* int() of a sequence of digits
RECURSIVE IntOf(_)
IntOf(ds) ==
    IF ds = << >>
    THEN 0
    ELSE 10 * IntOf(SubSeq(ds, 1, Len(ds) - 1))
         + (CHOOSE j \in 1..Len(Digits) : Digits[j] = ds[Len(ds)]) - 1

\* re.search(r'(\d+)', s): << >> without a digit, else <<n>> for the
\* first run of digits
FirstNumber(s) ==
    IF \A i \in 1..Len(s) : ~IsDigit(s[i])
    THEN << >>
    ELSE LET first == CHOOSE i \in 1..Len(s) :
                          IsDigit(s[i]) /\ \A j \in 1..(i - 1) : ~IsDigit(s[j])
             last == CHOOSE i \in first..Len(s) :
                          /\ \A j \in first..i : IsDigit(s[j])
                          /\ (i = Len(s) \/ ~IsDigit(s[i + 1]))
         IN  <<IntOf(SubSeq(s, first, last))>>

\* the three kinds of port, in the order the class attribute is searched
\* for them, and their spelling
PortKinds == <<"input", "output", "bidirectional">>

Spelling(port_type) ==
    CASE port_type = "input" -> <<"i", "n", "p", "u", "t">>
      [] port_type = "output" -> <<"o", "u", "t", "p", "u", "t">>
      [] port_type = "bidirectional" -> <<"b", "i", "d", "i", "r", "e", "c", "t", "i", "o", "n", "a", "l">>

\* SVGPortParser.port_type_mapping, in the order of the dictionary
port_type_mapping ==
    << <<<<"i", "n", "l", "e", "t">>, "input">>,
       <<<<"i", "n">>, "input">>,
       <<<<"a", "s", "p", "i", "r", "a", "t", "i", "o", "n">>, "input">>,
       <<<<"s", "u", "c", "t", "i", "o", "n">>, "input">>,
       <<<<"e", "n", "t", "r", "y">>, "input">>,
       <<<<"e", "n", "t", "r", "e", "e">>, "input">>,
       <<<<"o", "u", "t", "l", "e", "t">>, "output">>,
       <<<<"o", "u", "t">>, "output">>,
       <<<<"d", "i", "s", "c", "h", "a", "r", "g", "e">>, "output">>,
       <<<<"r", "e", "f", "o", "u", "l", "e", "m", "e", "n", "t">>, "output">>,
       <<<<"e", "x", "i", "t">>, "output">>,
       <<<<"s", "o", "r", "t", "i", "e">>, "output">>,
       <<<<"c", "o", "n", "n", "e", "c", "t", "i", "o", "n">>, "bidirectional">>,
       <<<<"c", "o", "n", "n">>, "bidirectional">>,
       <<<<"b", "o", "t", "h">>, "bidirectional">>,
       <<<<"b", "i", "d", "i", "r", "e", "c", "t">>, "bidirectional">> >>

\* a port type chosen from the identifier before the class attribute
_determine_port_type_id_first(circle_id, circle) ==
    LET data_type == Lower(circle.data_type)
        class_attr == Lower(circle.class)
        id_lower == Lower(circle_id)
        port_num_match == FirstNumber(circle_id)
    IN  IF \E i \in 1..3 : data_type = Spelling(PortKinds[i])
        THEN PortKinds[CHOOSE i \in 1..3 : data_type = Spelling(PortKinds[i])]
        ELSE IF \E i \in 1..Len(port_type_mapping) : Contains(id_lower, port_type_mapping[i][1])
        THEN port_type_mapping[CHOOSE i \in 1..Len(port_type_mapping) :
                 /\ Contains(id_lower, port_type_mapping[i][1])
                 /\ \A j \in 1..(i - 1) : ~Contains(id_lower, port_type_mapping[j][1])][2]
        ELSE IF \E i \in 1..3 : Contains(class_attr, Spelling(PortKinds[i]))
        THEN PortKinds[CHOOSE i \in 1..3 :
                 /\ Contains(class_attr, Spelling(PortKinds[i]))
                 /\ \A j \in 1..(i - 1) : ~Contains(class_attr, Spelling(PortKinds[j]))]
        ELSE IF port_num_match # << >>
        THEN IF port_num_match[1] % 2 = 1 THEN "input" ELSE "output"
        ELSE "bidirectional"

\* SVGPortParser._determine_port_type(circle_id, circle); circle holds the
\* attributes data-type and class of the element, empty when absent
_determine_port_type(circle_id, circle) ==
    LET data_type == Lower(circle.data_type)
        class_attr == Lower(circle.class)
        id_lower == Lower(circle_id)
        port_num_match == FirstNumber(circle_id)
    IN  IF \E i \in 1..3 : data_type = Spelling(PortKinds[i])
        THEN PortKinds[CHOOSE i \in 1..3 : data_type = Spelling(PortKinds[i])]
        ELSE IF \E i \in 1..3 : Contains(class_attr, Spelling(PortKinds[i]))
        THEN PortKinds[CHOOSE i \in 1..3 :
                 /\ Contains(class_attr, Spelling(PortKinds[i]))
                 /\ \A j \in 1..(i - 1) : ~Contains(class_attr, Spelling(PortKinds[j]))]
        ELSE IF \E i \in 1..Len(port_type_mapping) : Contains(id_lower, port_type_mapping[i][1])
        THEN port_type_mapping[CHOOSE i \in 1..Len(port_type_mapping) :
                 /\ Contains(id_lower, port_type_mapping[i][1])
                 /\ \A j \in 1..(i - 1) : ~Contains(id_lower, port_type_mapping[j][1])][2]
        ELSE IF port_num_match # << >>
        THEN IF port_num_match[1] % 2 = 1 THEN "input" ELSE "output"
        ELSE "bidirectional"

\* \w of the regular expressions
IsWord(ch) ==
    \/ IsDigit(ch)
    \/ ch = "_"
    \/ \E j \in 1..Len(LowerLetters) : LowerLetters[j] = ch \/ UpperLetters[j] = ch

\* SVGPortParser._is_port_id: the third pattern, ^[Pp]ort[-_]?\w+$ without
\* regard to case, matches whatever the first two match
_is_port_id(element_id) ==
    /\ Len(element_id) >= 5
    /\ Lower(SubSeq(element_id, 1, 4)) = PORT
    /\ LET rest == SubSeq(element_id, 5, Len(element_id))
       IN  \/ \A i \in 1..Len(rest) : IsWord(rest[i])
           \/ /\ rest[1] \in {"-", "_"}
              /\ Len(rest) >= 2
              /\ \A i \in 2..Len(rest) : IsWord(rest[i])

\* SVGPortParser._clean_port_id
_clean_port_id(svg_id) ==
    LET prefixed == /\ Len(svg_id) >= 4
                    /\ svg_id[1] \in {"P", "p"}
                    /\ SubSeq(svg_id, 2, 4) = SubSeq(PORT, 2, 4)
        n == IF ~prefixed THEN 0
             ELSE IF Len(svg_id) >= 5 /\ svg_id[5] \in {"-", "_"} THEN 5
             ELSE 4
        cleaned == SubSeq(svg_id, n + 1, Len(svg_id))
    IN  IF cleaned # << >> THEN Lower(cleaned) ELSE Lower(svg_id)

\* SVGPortParser._extract_port_number
_extract_port_number(svg_id) ==
    IF FirstNumber(svg_id) = << >> THEN 999 ELSE FirstNumber(svg_id)[1]

\* A drawing (svg_content) is a record: empty (the string is empty),
\* well_formed (ET.fromstring accepts it), den (the unit of its
\* coordinates), viewBox (the numbers of the attribute, << >> when
\* absent), width and height (numbers, in hundredths of a pixel) and
\* circles, each with id, position (<<cx, cy>>, or << >> when cx or cy is
\* no number), data_type and class.

\* SVGPortParser._get_svg_viewbox: the viewBox when it has four numbers,
\* else the frame of width and height
_get_svg_viewbox(svg) ==
    IF Len(svg.viewBox) = 4
    THEN svg.viewBox
    ELSE <<0, 0, svg.width * (svg.den \div 100), svg.height * (svg.den \div 100)>>

\* SVGPortParser._get_target_size_from_svg
_get_target_size_from_svg(svg) == <<svg.width, svg.height>>

\* the circles for which _analyze_circle_as_port goes on to the
\* conversion: a port id and a position
PortCircles(svg) ==
    SelectSeq(svg.circles, LAMBDA circle : _is_port_id(circle.id) /\ circle.position # << >>)

\* list.sort(key=_extract_port_number), a stable sort
SortedByNumber(ports) ==
    LET key(i) == _extract_port_number(ports[i].svg_element_id)
        rank(i) == Cardinality({j \in 1..Len(ports) :
                       key(j) < key(i) \/ (key(j) = key(i) /\ j < i)}) + 1
    IN  [r \in 1..Len(ports) |-> ports[CHOOSE i \in 1..Len(ports) : rank(i) = r]]

\* the port lists _analyze_circle_as_port can build from the circles: each
\* position is one of those the conversion can return
PortLists(cs, viewbox, target_size) ==
    LET converted(i) == _convert_svg_to_qt_coordinates(cs[i].position, viewbox, target_size)
        positions == {f \in [1..Len(cs) -> UNION {converted(i) : i \in 1..Len(cs)}] :
                          \A i \in 1..Len(cs) : f[i] \in converted(i)}
    IN  {[i \in 1..Len(cs) |->
            [id |-> _clean_port_id(cs[i].id),
             type |-> _determine_port_type(cs[i].id, cs[i]),
             position |-> f[i],
             svg_element_id |-> cs[i].id]] : f \in positions}

\* a parse_svg_ports without its try: the exceptions reach the caller
parse_svg_ports_uncaught(svg) ==
    IF ~svg.well_formed
    THEN {[raised |-> TRUE, ports |-> << >>]}
    ELSE LET viewbox == _get_svg_viewbox(svg)
             target_size == _get_target_size_from_svg(svg)
             cs == PortCircles(svg)
         IN  IF cs # << >> /\ ZeroDivision(viewbox)
             THEN {[raised |-> TRUE, ports |-> << >>]}
             ELSE {[raised |-> FALSE, ports |-> SortedByNumber(ports)] :
                       ports \in PortLists(cs, viewbox, target_size)}

\* SVGPortParser.parse_svg_ports(svg_content): the outcomes it can have,
\* each the list returned and whether an exception reached the caller.
\* ET.ParseError of a drawing that is not well formed and the
\* ZeroDivisionError of a conversion are caught and give the empty list.
parse_svg_ports(svg) ==
    IF ~svg.well_formed
    THEN {[raised |-> FALSE, ports |-> << >>]}
    ELSE LET viewbox == _get_svg_viewbox(svg)
             target_size == _get_target_size_from_svg(svg)
             cs == PortCircles(svg)
         IN  IF cs # << >> /\ ZeroDivision(viewbox)
             THEN {[raised |-> FALSE, ports |-> << >>]}
             ELSE {[raised |-> FALSE, ports |-> SortedByNumber(ports)] :
                       ports \in PortLists(cs, viewbox, target_size)}

\* ------------------------------------------------------------------
\* config/hydraulic_objects.py
\* ------------------------------------------------------------------
HYDRAULIC_OBJECT_TYPES == {"PUMP", "VALVE", "RESERVOIR", "TANK"}

\* config "svg_scale" of a type, in units of 1 (2.0 and 1.0)
svg_scale(t) == IF t \in {"PUMP", "VALVE"} THEN 2 ELSE 1

\* get_port_configs: the port templates parse_svg_ports extracts from the
\* type's drawing (positions in pixels), in the parser's order
get_port_configs(t) ==
    IF t \in {"PUMP", "VALVE"}
    THEN << [id |-> "1", type |-> "input",  position |-> <<15, 28>>],
            [id |-> "2", type |-> "output", position |-> <<15, 2>>] >>
    ELSE IF t \in {"RESERVOIR", "TANK"}
    THEN << [id |-> "1", type |-> "output", position |-> <<15, 23>>] >>
    ELSE << >>

\* a dictionary d updated with the entries of u (dict.update); << >> is
\* the empty dictionary, and None
Merge(d, u) ==
    [k \in (DOMAIN d) \cup (DOMAIN u) |-> IF k \in DOMAIN u THEN u[k] ELSE d[k]]

\* config "default_properties" of a type (get_default_properties): the
\* numeric properties followed here
get_default_properties(t) ==
    IF t = "PUMP" THEN [flow_rate |-> 100, pressure_head |-> 50, speed |-> 2900]
    ELSE IF t = "RESERVOIR" THEN [head |-> 100]
    ELSE << >>

\* config "property_constraints" of a type, as <<min, max>> by property
property_constraints(t) ==
    IF t = "PUMP" THEN [flow_rate |-> <<1, 10000>>, pressure_head |-> <<1, 500>>]
    ELSE IF t = "RESERVOIR" THEN [head |-> <<0, 1000>>]
    ELSE << >>

\* a validation that checks the lower limit only
validate_property_min_only(t, property_name, value) ==
    IF property_name \notin DOMAIN property_constraints(t) THEN TRUE
    ELSE LET constraint == property_constraints(t)[property_name]
         IN  ~(value < constraint[1])

\* validate_property, for a numeric value
validate_property(t, property_name, value) ==
    IF property_name \notin DOMAIN property_constraints(t) THEN TRUE
    ELSE LET constraint == property_constraints(t)[property_name]
         IN  ~(value < constraint[1]) /\ ~(value > constraint[2])

\* ------------------------------------------------------------------
\* State
\* ------------------------------------------------------------------
VARIABLES
    \* every HydraulicObject constructed so far, by handle (its identity);
    \* an object removed from the scene stays here, as the Python object
    \* stays alive while a pipe refers to it
    objs,
    \* ComponentController: objects (id -> handle), objects_by_type,
    \* type_counters, next_position, current_row_count
    objects, objects_by_type, type_counters, next_position, current_row_count,
    \* HydraulicObject.GLOBAL_SCALE and HydraulicWorkArea.objects_scale
    GLOBAL_SCALE, objects_scale,
    \* ConnectionController: connection_mode, pipe_builder (with
    \* start_component / start_port_id), hovering_port, pipes, pipe_counter
    connection_mode, pipe_builder, hovering_port, pipes, pipe_counter,
    \* TransformController.transformation_history
    transformation_history,
    \* the last request that returned a value or reported its outcome by a
    \* signal, and the value
    lastCall,
    \* a call of OrthogonalPipe.calculate_orthogonal_path under examination:
    \* its arguments and the points it returned
    route

compVars == <<objects, objects_by_type, type_counters, next_position, current_row_count>>

scaleVars == <<GLOBAL_SCALE, objects_scale>>

connVars == <<connection_mode, pipe_builder, hovering_port, pipe_counter>>

vars == <<objs, pipes, compVars, scaleVars, connVars, transformation_history, lastCall, route>>

\* ------------------------------------------------------------------
\* components/ports.py
\* ------------------------------------------------------------------
BASE_RADIUS == 3

\* Port.__init__: the port is created at the template's base position,
\* unconnected, outside the scene, at the item's default position (0,0)
Port(port_id, port_type, position) ==
    [ port_id          |-> port_id,
      port_type        |-> port_type,
      initial_position |-> position,
      pos              |-> <<0, 0>>,
      in_scene         |-> FALSE,
      is_connected     |-> FALSE,
      connected_pipe   |-> 0,
      current_scale    |-> ScaleDen,
      effective_radius |-> BASE_RADIUS * ScaleDen ]

\* Port.update_scale
port_update_scale(port, scale) ==
    IF scale # port.current_scale
    THEN [port EXCEPT !.current_scale = scale, !.effective_radius = BASE_RADIUS * scale]
    ELSE port

\* Port.connect_to_pipe / Port.disconnect_from_pipe
connect_to_pipe(port, pipe) == [port EXCEPT !.is_connected = TRUE, !.connected_pipe = pipe]

disconnect_from_pipe(port) == [port EXCEPT !.is_connected = FALSE, !.connected_pipe = 0]

\* ------------------------------------------------------------------
\* components/hydraulic_object.py
\* ------------------------------------------------------------------
\* a variant of create_ports that builds the ports in reverse template
\* order
create_ports_reversed(object_type) ==
    LET cfg == get_port_configs(object_type)
        n == Len(cfg)
    IN  [i \in 1..n |-> Port(cfg[n + 1 - i].id, cfg[n + 1 - i].type,
                             <<Px(cfg[n + 1 - i].position[1]), Px(cfg[n + 1 - i].position[2])>>)]

\* HydraulicObject.create_ports: one port per template, in template order,
\* at the template's base position
create_ports(object_type) ==
    LET cfg == get_port_configs(object_type)
    IN  [i \in 1..Len(cfg) |-> Port(cfg[i].id, cfg[i].type,
                                     <<Px(cfg[i].position[1]), Px(cfg[i].position[2])>>)]

\* HydraulicObject.update_ports_scale: every port is put back at
\* template base position * current_scale, moved there when it is in the
\* scene, and resized
update_ports_scale(o) ==
    LET cfg == get_port_configs(o.object_type)
        one(i) ==
            IF i <= Len(cfg)
            THEN LET np == << cfg[i].position[1] * o.current_scale,
                              cfg[i].position[2] * o.current_scale >>
                     p1 == [o.ports[i] EXCEPT !.initial_position = np]
                     p2 == IF p1.in_scene THEN [p1 EXCEPT !.pos = PAdd(o.pos, np)] ELSE p1
                 IN  port_update_scale(p2, o.current_scale)
            ELSE o.ports[i]
    IN  [o EXCEPT !.ports = [i \in 1..Len(o.ports) |-> one(i)]]

\* HydraulicObject.__init__ for a registered type
HydraulicObject(component_id, object_type, properties, global) ==
    LET o == [ component_id   |-> component_id,
               object_type    |-> object_type,
               properties     |-> Merge(get_default_properties(object_type), properties),
               base_svg_scale |-> svg_scale(object_type),
               current_scale  |-> svg_scale(object_type) * global,
               pos            |-> <<0, 0>>,
               rotation       |-> 0,
               transform      |-> <<1, 1>>,
               in_scene       |-> FALSE,
               movable        |-> TRUE,
               ports          |-> create_ports(object_type) ]
    IN  update_ports_scale(o)

\* HydraulicObject.__init__ for any type tag: << >> when ValueError is
\* raised (get_object_config gives nothing), before any shape or port is
\* created; otherwise the object, as <<o>>
TryHydraulicObject(component_id, object_type, properties, global) ==
    IF object_type \notin HYDRAULIC_OBJECT_TYPES
    THEN << >>
    ELSE <<HydraulicObject(component_id, object_type, properties, global)>>

\* a variant of update_scale that records the new scale and leaves the
\* ports as they are
update_scale_keep_ports(o, new_global_scale) ==
    [o EXCEPT !.current_scale = o.base_svg_scale * new_global_scale]

\* HydraulicObject.update_scale(new_global_scale); the call without
\* argument is update_scale(o, GLOBAL_SCALE)
update_scale(o, new_global_scale) ==
    LET new_scale == o.base_svg_scale * new_global_scale
    IN  IF new_scale # o.current_scale
        THEN update_ports_scale([o EXCEPT !.current_scale = new_scale])
        ELSE o

\* HydraulicObject.get_port_by_id: index of the first port with that id,
\* 0 for None
get_port_by_id(o, port_id) ==
    LET hits == {i \in 1..Len(o.ports) : o.ports[i].port_id = port_id}
    IN  IF hits = {} THEN 0 ELSE CHOOSE i \in hits : \A j \in hits : i <= j

\* HydraulicObject.to_dict
to_dict(o) ==
    [ component_id |-> o.component_id,
      object_type  |-> o.object_type,
      properties   |-> o.properties,
      position     |-> [x |-> X(o.pos), y |-> Y(o.pos)],
      scale_info   |-> [base_svg_scale |-> o.base_svg_scale,
                        current_scale  |-> o.current_scale] ]

\* a variant of update_ports_positions that leaves the ports where they are
update_ports_positions_stale(o, new_component_position) == o

\* HydraulicObject.update_ports_positions
update_ports_positions(o, new_component_position) ==
    [o EXCEPT !.ports = [i \in 1..Len(o.ports) |->
        [o.ports[i] EXCEPT !.pos = PAdd(new_component_position, o.ports[i].initial_position)]]]

\* HydraulicObject.from_dict(data) while the class scale GLOBAL_SCALE is
\* global: construction, setPos (Qt does nothing when the position is the
\* one the new object has), then current_scale is set to the saved value
\* and update_scale() is called without argument
from_dict(data, global) ==
    LET o0 == HydraulicObject(data.component_id, data.object_type, data.properties, global)
        position == Pt(data.position.x, data.position.y)
        o1 == IF position # o0.pos
              THEN [update_ports_positions(o0, position) EXCEPT !.pos = position]
              ELSE o0
        o2 == [o1 EXCEPT !.current_scale = data.scale_info.current_scale]
    IN  update_scale(o2, global)

\* HydraulicObject.get_connected_ports, as the set of pipes they name
\* (itemChange recomputes port.connected_pipe for each of them)
connected_pipes_of(o) ==
    {o.ports[i].connected_pipe : i \in {j \in 1..Len(o.ports) :
        o.ports[j].is_connected /\ o.ports[j].connected_pipe # 0}}

\* ------------------------------------------------------------------
\* components/pipe.py
\* ------------------------------------------------------------------
\* a variant of create_orthogonal_segments that goes vertical first when
\* the two displacements are equal
create_orthogonal_segments_tie_vertical(start, end) ==
    LET dx == X(end) - X(start)
        dy == Y(end) - Y(start)
    IN  IF Abs(dx) > Abs(dy)
        THEN <<start, Pt(X(end), Y(start)), end>>
        ELSE <<start, Pt(X(start), Y(end)), end>>

\* OrthogonalPipe.create_orthogonal_segments
create_orthogonal_segments(start, end) ==
    LET dx == X(end) - X(start)
        dy == Y(end) - Y(start)
    IN  IF Abs(dx) >= Abs(dy)
        THEN <<start, Pt(X(end), Y(start)), end>>
        ELSE <<start, Pt(X(start), Y(end)), end>>

\* OrthogonalPipe.calculate_orthogonal_path: the loop over the waypoints,
\* then the final leg
RECURSIVE path_from(_, _, _, _)
path_from(points, current_pos, waypoints, end_pos) ==
    IF waypoints = << >>
    THEN points \o Tail(create_orthogonal_segments(current_pos, end_pos))
    ELSE path_from(points \o Tail(create_orthogonal_segments(current_pos, Head(waypoints))),
                   Head(waypoints), Tail(waypoints), end_pos)

calculate_orthogonal_path(start_pos, end_pos, waypoints) ==
    path_from(<<start_pos>>, start_pos, waypoints, end_pos)

\* math.sqrt(dx*dx + dy*dy), to the coordinate resolution
Hypot(dx, dy) ==
    LET a == Abs(dx)
        b == Abs(dy)
    IN  CHOOSE r \in Max(a, b)..(a + b) : r * r <= a * a + b * b /\ (r + 1) * (r + 1) > a * a + b * b

RECURSIVE SumSegments(_, _)
SumSegments(points, i) ==
    IF i >= Len(points) THEN 0
    ELSE Hypot(X(points[i + 1]) - X(points[i]), Y(points[i + 1]) - Y(points[i]))
         + SumSegments(points, i + 1)

\* round(v / 2) to the nearest integer, halves to the even neighbour
\* (Python's round)
RoundHalf(v) ==
    IF v % 2 = 0 THEN v \div 2
    ELSE IF ((v - 1) \div 2) % 2 = 0 THEN (v - 1) \div 2 ELSE (v + 1) \div 2

\* a variant of calculate_total_length that leaves the sum in pixels
calculate_total_length_in_pixels(points) == SumSegments(points, 1)

\* OrthogonalPipe.calculate_total_length: round(total * 0.5, 1), in tenths
\* of a millimetre
calculate_total_length(points) == RoundHalf(SumSegments(points, 1))

\* a variant of update_orthogonal_path that empties the path of a pipe
\* whose port is not found
update_orthogonal_path_clears(pipe, os) ==
    LET sp == get_port_by_id(os[pipe.start_component], pipe.start_port)
        ep == get_port_by_id(os[pipe.end_component], pipe.end_port)
    IN  IF sp = 0 \/ ep = 0 THEN [pipe EXCEPT !.path = << >>, !.length = 0]
        ELSE LET points == calculate_orthogonal_path(os[pipe.start_component].ports[sp].pos,
                                                     os[pipe.end_component].ports[ep].pos,
                                                     pipe.waypoints)
             IN  [pipe EXCEPT !.path = points, !.length = calculate_total_length(points)]

\* OrthogonalPipe.update_orthogonal_path (and its alias update_path): the
\* ports are resolved by id on the referenced components; the pipe is left
\* as it is when one of them is missing
update_orthogonal_path(pipe, os) ==
    LET sp == get_port_by_id(os[pipe.start_component], pipe.start_port)
        ep == get_port_by_id(os[pipe.end_component], pipe.end_port)
    IN  IF sp = 0 \/ ep = 0 THEN pipe
        ELSE LET points == calculate_orthogonal_path(os[pipe.start_component].ports[sp].pos,
                                                     os[pipe.end_component].ports[ep].pos,
                                                     pipe.waypoints)
             IN  [pipe EXCEPT !.path = points, !.length = calculate_total_length(points)]

\* what update_orthogonal_path prints: the error when a port is not
\* found, else the trace of the new path; no exception leaves the call
update_orthogonal_path_message(pipe, os) ==
    IF \/ get_port_by_id(os[pipe.start_component], pipe.start_port) = 0
       \/ get_port_by_id(os[pipe.end_component], pipe.end_port) = 0
    THEN "Erreur: ports non trouves"
    ELSE "Trace mis a jour"

\* a pipe built without the waypoints it is given
OrthogonalPipe_without_waypoints(start_component, start_port, end_component, end_port, waypoints, os) ==
    update_orthogonal_path(
        [ start_component |-> start_component,
          start_port      |-> start_port,
          end_component   |-> end_component,
          end_port        |-> end_port,
          waypoints       |-> << >>,
          path            |-> << >>,
          length          |-> 0 ], os)

\* OrthogonalPipe.__init__: setup_pipe computes the first path
OrthogonalPipe(start_component, start_port, end_component, end_port, waypoints, os) ==
    update_orthogonal_path(
        [ start_component |-> start_component,
          start_port      |-> start_port,
          end_component   |-> end_component,
          end_port        |-> end_port,
          waypoints       |-> waypoints,
          path            |-> << >>,
          length          |-> 0 ], os)

\* ------------------------------------------------------------------
\* The scene: w.objs are the objects, w.pipes the registered pipes
\* ------------------------------------------------------------------
\* a setPos whose itemChange recomputes the pipes before it moves the ports
setPos_pipes_first(w, h, p) ==
    IF w.objs[h].pos = p THEN w
    ELSE LET o1 == update_ports_positions(w.objs[h], p)
             os1 == [w.objs EXCEPT ![h] = o1]
             touched == connected_pipes_of(o1) \cap DOMAIN w.pipes
             ps1 == [n \in DOMAIN w.pipes |->
                        IF n \in touched THEN update_orthogonal_path(w.pipes[n], w.objs)
                        ELSE w.pipes[n]]
         IN  [objs |-> [os1 EXCEPT ![h].pos = p], pipes |-> ps1]

\* QGraphicsItem.setPos on a hydraulic object.  Qt returns at once when the
\* position does not change; otherwise HydraulicObject.itemChange
\* (ItemPositionChange) moves the ports, then recomputes the pipe of every
\* connected port, and the new position is stored.
setPos(w, h, p) ==
    IF w.objs[h].pos = p THEN w
    ELSE LET o1 == update_ports_positions(w.objs[h], p)
             os1 == [w.objs EXCEPT ![h] = o1]
             touched == connected_pipes_of(o1) \cap DOMAIN w.pipes
             ps1 == [n \in DOMAIN w.pipes |->
                        IF n \in touched THEN update_orthogonal_path(w.pipes[n], os1)
                        ELSE w.pipes[n]]
         IN  [objs |-> [os1 EXCEPT ![h].pos = p], pipes |-> ps1]

\* ------------------------------------------------------------------
\* controllers/transform_controller.py
\* A selection is a sequence of graphics items: the handle of a hydraulic
\* object, or 0 for any other item (a pipe, a grid line).
\* ------------------------------------------------------------------
max_history == 50

\* TransformController._filter_hydraulic_objects
_filter_hydraulic_objects(w, selected) ==
    SelectSeq(selected, LAMBDA x : x \in DOMAIN w.objs)

RECURSIVE SumPos(_, _, _)
SumPos(w, hs, k) ==
    IF hs = << >> THEN 0 ELSE w.objs[Head(hs)].pos[k] + SumPos(w, Tail(hs), k)

\* TransformController._calculate_objects_center: the mean of the scene
\* positions, kept as the two sums and the count <<total_x, total_y, n>>
\* so that the division is made once, where the centre is used
_calculate_objects_center(w, hs) ==
    IF hs = << >> THEN <<0, 0, 1>>
    ELSE <<SumPos(w, hs, 1), SumPos(w, hs, 2), Len(hs)>>

\* the centre as a point, as it is stored in the history
CenterPoint(c) == <<c[1] \div c[3], c[2] \div c[3]>>

\* a variant of _rotate_object_ports that turns the ports with the sign of
\* one matrix entry changed
_rotate_object_ports_mirrored(o, angle_degrees) ==
    LET cos_a == Cos(angle_degrees)
        sin_a == Sin(angle_degrees)
        one(port) ==
            LET new_rel == Pt(X(port.initial_position) * cos_a - Y(port.initial_position) * sin_a,
                              Y(port.initial_position) * cos_a - X(port.initial_position) * sin_a)
            IN  [port EXCEPT !.initial_position = new_rel, !.pos = PAdd(o.pos, new_rel)]
    IN  [o EXCEPT !.ports = [i \in 1..Len(o.ports) |-> one(o.ports[i])]]

\* TransformController._rotate_object_ports (hasattr(obj,
\* 'rotate_ports_around_center') is false: that function is defined at
\* module level, so the fallback loop runs)
_rotate_object_ports(o, angle_degrees) ==
    LET cos_a == Cos(angle_degrees)
        sin_a == Sin(angle_degrees)
        one(port) ==
            LET old_rel_x == X(port.initial_position)
                old_rel_y == Y(port.initial_position)
                new_rel == Pt(old_rel_x * cos_a - old_rel_y * sin_a,
                              old_rel_x * sin_a + old_rel_y * cos_a)
            IN  [port EXCEPT !.initial_position = new_rel, !.pos = PAdd(o.pos, new_rel)]
    IN  [o EXCEPT !.ports = [i \in 1..Len(o.ports) |-> one(o.ports[i])]]

\* a variant of _rotate_single_object that turns the ports once more after
\* they have been brought to the new position
_rotate_single_object_ports_twice(w, h, angle_degrees, center) ==
    LET current_pos == w.objs[h].pos
        n == center[3]
        ndx == n * X(current_pos) - center[1]
        ndy == n * Y(current_pos) - center[2]
        cos_a == Cos(angle_degrees)
        sin_a == Sin(angle_degrees)
        new_pos == Pt((center[1] + (ndx * cos_a - ndy * sin_a)) \div n,
                      (center[2] + (ndx * sin_a + ndy * cos_a)) \div n)
        w1 == setPos(w, h, new_pos)
        o2 == [w1.objs[h] EXCEPT !.rotation = @ + angle_degrees]
        o3 == _rotate_object_ports(o2, angle_degrees)
        o4 == _rotate_object_ports(update_ports_positions(o3, new_pos), angle_degrees)
    IN  [w1 EXCEPT !.objs[h] = o4]

\* TransformController._rotate_single_object
_rotate_single_object(w, h, angle_degrees, center) ==
    LET current_pos == w.objs[h].pos
        n == center[3]
        \* dx = x - center.x, dy = y - center.y, times n
        ndx == n * X(current_pos) - center[1]
        ndy == n * Y(current_pos) - center[2]
        cos_a == Cos(angle_degrees)
        sin_a == Sin(angle_degrees)
        new_pos == Pt((center[1] + (ndx * cos_a - ndy * sin_a)) \div n,
                      (center[2] + (ndx * sin_a + ndy * cos_a)) \div n)
        w1 == setPos(w, h, new_pos)
        o2 == [w1.objs[h] EXCEPT !.rotation = @ + angle_degrees]
        o3 == _rotate_object_ports(o2, angle_degrees)
        o4 == update_ports_positions(o3, new_pos)
    IN  [w1 EXCEPT !.objs[h] = o4]

RECURSIVE rotate_each(_, _, _, _)
rotate_each(w, hs, angle_degrees, center) ==
    IF hs = << >> THEN w
    ELSE rotate_each(_rotate_single_object(w, Head(hs), angle_degrees, center),
                     Tail(hs), angle_degrees, center)

\* an alignment reference taken from the first object of the list
_calculate_alignment_reference_first(w, hs, alignment_type) ==
    LET reference_pos == w.objs[hs[1]].pos
    IN  IF alignment_type = "horizontal" THEN Y(reference_pos) ELSE X(reference_pos)

\* TransformController._calculate_alignment_reference: the coordinate of
\* the last object of the list
_calculate_alignment_reference(w, hs, alignment_type) ==
    LET reference_pos == w.objs[hs[Len(hs)]].pos
    IN  IF alignment_type = "horizontal" THEN Y(reference_pos) ELSE X(reference_pos)

\* TransformController._align_single_object with
\* _update_object_ports_after_move
_align_single_object(w, h, reference_line, alignment_type) ==
    LET current_pos == w.objs[h].pos
        new_pos == IF alignment_type = "horizontal"
                   THEN Pt(X(current_pos), reference_line)
                   ELSE Pt(reference_line, Y(current_pos))
        w1 == setPos(w, h, new_pos)
    IN  [w1 EXCEPT !.objs[h] = update_ports_positions(w1.objs[h], new_pos)]

RECURSIVE align_each(_, _, _, _)
align_each(w, hs, reference_line, alignment_type) ==
    IF hs = << >> THEN w
    ELSE align_each(_align_single_object(w, Head(hs), reference_line, alignment_type),
                    Tail(hs), reference_line, alignment_type)

\* a variant of _flip_object_ports that sends every port to the negative
\* side instead of mirroring it
_flip_object_ports_one_sided(o, flip_type) ==
    LET one(port) ==
            LET rel == port.initial_position
                new_rel_pos == IF flip_type = "horizontal"
                               THEN Pt(-Abs(X(rel)), Y(rel)) ELSE Pt(X(rel), -Abs(Y(rel)))
            IN  [port EXCEPT !.initial_position = new_rel_pos, !.pos = PAdd(o.pos, new_rel_pos)]
    IN  [o EXCEPT !.ports = [i \in 1..Len(o.ports) |-> one(o.ports[i])]]

\* TransformController._flip_object_ports
_flip_object_ports(o, flip_type) ==
    LET one(port) ==
            LET current_rel_pos == port.initial_position
                new_rel_pos == IF flip_type = "horizontal"
                               THEN Pt(-X(current_rel_pos), Y(current_rel_pos))
                               ELSE Pt(X(current_rel_pos), -Y(current_rel_pos))
            IN  [port EXCEPT !.initial_position = new_rel_pos, !.pos = PAdd(o.pos, new_rel_pos)]
    IN  [o EXCEPT !.ports = [i \in 1..Len(o.ports) |-> one(o.ports[i])]]

\* a variant of _flip_single_object_around_center that mirrors the object
\* about the axis of the scene: its position changes sign with its ports
_flip_single_object_about_scene_axis(o, flip_type) ==
    LET moved == [o EXCEPT !.pos = IF flip_type = "horizontal"
                                   THEN Pt(-X(@), Y(@)) ELSE Pt(X(@), -Y(@))]
        o1 == _flip_object_ports(moved, flip_type)
    IN  [o1 EXCEPT !.transform = IF flip_type = "horizontal"
                                 THEN <<-@[1], @[2]>> ELSE <<@[1], -@[2]>>]

\* TransformController._flip_single_object_around_center: the ports are
\* mirrored, then the mirror is composed into the object's transform
_flip_single_object_around_center(o, flip_type) ==
    LET o1 == _flip_object_ports(o, flip_type)
    IN  [o1 EXCEPT !.transform = IF flip_type = "horizontal"
                                 THEN <<-@[1], @[2]>> ELSE <<@[1], -@[2]>>]

RECURSIVE flip_each(_, _, _)
flip_each(w, hs, flip_type) ==
    IF hs = << >> THEN w
    ELSE flip_each([w EXCEPT !.objs[Head(hs)] =
                        _flip_single_object_around_center(w.objs[Head(hs)], flip_type)],
                   Tail(hs), flip_type)

\* component ids of a list of objects
IdsOf(w, hs) == [i \in 1..Len(hs) |-> w.objs[hs[i]].component_id]

\* the time of the latest entry of a history (0 when it is empty)
LatestTime(history) ==
    IF history = << >> THEN 0 ELSE history[Len(history)].timestamp

\* a history that gives way at the wrong end: the entry just appended is
\* dropped when the capacity is exceeded
_record_transformation_drops_newest(history, operation, ids, parameters) ==
    LET h1 == Append(history, [operation |-> operation, objects |-> ids,
                               parameters |-> parameters,
                               timestamp |-> LatestTime(history) + 1])
    IN  IF Len(h1) > max_history THEN SubSeq(h1, 1, Len(h1) - 1) ELSE h1

\* TransformController._record_transformation; time.time() is a clock
\* that ticks once per entry
_record_transformation(history, operation, ids, parameters) ==
    LET h1 == Append(history, [operation |-> operation, objects |-> ids,
                               parameters |-> parameters,
                               timestamp |-> LatestTime(history) + 1])
    IN  IF Len(h1) > max_history THEN Tail(h1) ELSE h1

\* what rotate_objects does to the scene when the request is valid
RotateScene(w, selected, angle_degrees) ==
    LET hs == _filter_hydraulic_objects(w, selected)
    IN  rotate_each(w, hs, angle_degrees, _calculate_objects_center(w, hs))

\* what _align_objects does to the scene when the request is valid
AlignScene(w, selected, alignment_type) ==
    LET hs == _filter_hydraulic_objects(w, selected)
    IN  align_each(w, hs, _calculate_alignment_reference(w, hs, alignment_type), alignment_type)

\* what flip_objects_horizontal / flip_objects_vertical do to the scene
\* when the request is valid
FlipScene(w, selected, flip_type) ==
    flip_each(w, _filter_hydraulic_objects(w, selected), flip_type)

World == [objs |-> objs, pipes |-> pipes]

\* TransformController.rotate_objects
rotate_objects(selected, angle_degrees) ==
    LET hs == _filter_hydraulic_objects(World, selected)
    IN  IF selected = << >> \/ hs = << >>
        THEN /\ lastCall' = [op |-> "rotate_objects", ret |-> FALSE,
                          signal |-> "transformation_failed"]
             /\ UNCHANGED <<objs, pipes, transformation_history>>
        ELSE LET w2 == RotateScene(World, selected, angle_degrees)
             IN  /\ objs' = w2.objs
                 /\ pipes' = w2.pipes
                 /\ transformation_history' = _record_transformation(
                        transformation_history, "rotation", IdsOf(World, hs),
                        [angle |-> angle_degrees,
                         center |-> CenterPoint(_calculate_objects_center(World, hs))])
                 /\ lastCall' = [op |-> "rotate_objects", ret |-> TRUE, signal |-> "objects_rotated"]

\* TransformController._align_objects (align_objects_horizontal and
\* align_objects_vertical)
_align_objects(selected, alignment_type) ==
    LET hs == _filter_hydraulic_objects(World, selected)
    IN  IF Len(selected) < 2 \/ Len(hs) < 2
        THEN /\ lastCall' = [op |-> "align_objects", ret |-> FALSE,
                          signal |-> "transformation_failed"]
             /\ UNCHANGED <<objs, pipes, transformation_history>>
        ELSE LET w2 == AlignScene(World, selected, alignment_type)
             IN  /\ objs' = w2.objs
                 /\ pipes' = w2.pipes
                 /\ transformation_history' = _record_transformation(
                        transformation_history, "alignment", IdsOf(World, hs),
                        [type |-> alignment_type,
                         reference |-> _calculate_alignment_reference(World, hs, alignment_type)])
                 /\ lastCall' = [op |-> "align_objects", ret |-> TRUE, signal |-> "objects_aligned"]

\* a flip that records a history entry for a request it refuses
flip_objects_logs_failure(selected, flip_type) ==
    LET hs == _filter_hydraulic_objects(World, selected)
    IN  IF selected = << >> \/ hs = << >>
        THEN /\ lastCall' = [op |-> "flip_objects", ret |-> FALSE,
                             signal |-> "transformation_failed"]
             /\ transformation_history' = _record_transformation(
                    transformation_history, "flip_" \o flip_type, << >>,
                    [type |-> flip_type, mode |-> "individual_center"])
             /\ UNCHANGED <<objs, pipes>>
        ELSE LET w2 == FlipScene(World, selected, flip_type)
             IN  /\ objs' = w2.objs
                 /\ pipes' = w2.pipes
                 /\ transformation_history' = _record_transformation(
                        transformation_history, "flip_" \o flip_type, IdsOf(World, hs),
                        [type |-> flip_type, mode |-> "individual_center"])
                 /\ lastCall' = [op |-> "flip_objects", ret |-> TRUE, signal |-> "objects_flipped"]

\* TransformController.flip_objects_horizontal / flip_objects_vertical
flip_objects(selected, flip_type) ==
    LET hs == _filter_hydraulic_objects(World, selected)
    IN  IF selected = << >> \/ hs = << >>
        THEN /\ lastCall' = [op |-> "flip_objects", ret |-> FALSE,
                          signal |-> "transformation_failed"]
             /\ UNCHANGED <<objs, pipes, transformation_history>>
        ELSE LET w2 == FlipScene(World, selected, flip_type)
             IN  /\ objs' = w2.objs
                 /\ pipes' = w2.pipes
                 /\ transformation_history' = _record_transformation(
                        transformation_history, "flip_" \o flip_type, IdsOf(World, hs),
                        [type |-> flip_type, mode |-> "individual_center"])
                 /\ lastCall' = [op |-> "flip_objects", ret |-> TRUE, signal |-> "objects_flipped"]

\* ------------------------------------------------------------------
\* controllers/component_controller.py
\* A component id "<prefix>_<counter:03d>" is the pair <<type, counter>>.
\* ------------------------------------------------------------------
max_objects_per_row == 6

position_offset == Pt(Px(150), Px(120))

first_position == Pt(Px(100), Px(100))

\* ComponentController.generate_object_id: the counters after the call;
\* the id is <<object_type, counters[object_type]>>
generate_object_id(counters, object_type) ==
    IF object_type \in DOMAIN counters
    THEN [counters EXCEPT ![object_type] = @ + 1]
    ELSE [t \in DOMAIN counters \cup {object_type} |->
            IF t = object_type THEN 1 ELSE counters[t]]

\* ComponentController.calculate_next_position: <<next_position,
\* current_row_count>> after the call (the position returned is the old
\* next_position)
calculate_next_position(np, row_count) ==
    IF row_count + 1 >= max_objects_per_row
    THEN <<Pt(X(first_position), Y(np) + Y(position_offset)), 0>>
    ELSE <<Pt(X(np) + X(position_offset), Y(np)), row_count + 1>>

\* create_hydraulic_object: construction, then setPos(position) unless
\* the position is the null point (QPointF(0,0) is falsy)
create_hydraulic_object(component_id, object_type, properties, position, global) ==
    LET o == HydraulicObject(component_id, object_type, properties, global)
    IN  IF position # <<0, 0>>
        THEN [update_ports_positions(o, position) EXCEPT !.pos = position]
        ELSE o

\* ComponentController.add_object_ports_to_scene
add_object_ports_to_scene(o, position) ==
    [o EXCEPT !.ports = [i \in 1..Len(o.ports) |->
        [o.ports[i] EXCEPT !.pos = PAdd(position, o.ports[i].initial_position),
                           !.in_scene = TRUE]]]

\* ComponentController.register_object, on objects_by_type
register_object(by_type, object_id, object_type) ==
    IF object_type \in DOMAIN by_type
    THEN [by_type EXCEPT ![object_type] = Append(@, object_id)]
    ELSE [t \in DOMAIN by_type \cup {object_type} |->
            IF t = object_type THEN <<object_id>> ELSE by_type[t]]

\* the properties of a batch that validate_property refuses
RejectedOf(object_type, properties) ==
    {k \in DOMAIN properties : ~validate_property(object_type, k, properties[k])}

\* the properties of a batch that validate_property accepts
ValidatedOf(object_type, properties) ==
    [k \in (DOMAIN properties) \ RejectedOf(object_type, properties) |-> properties[k]]

\* ComponentController.prepare_object_properties
prepare_object_properties(object_type, custom_properties) ==
    Merge(get_default_properties(object_type), ValidatedOf(object_type, custom_properties))

\* an add_object that draws the id before it looks the type up
add_object_counts_first(object_type, custom_properties, position) ==
    IF object_type \notin HYDRAULIC_OBJECT_TYPES
    THEN /\ lastCall' = [op |-> "add_object", ret |-> << >>,
                         signal |-> "object_creation_failed", rejected |-> {}]
         /\ type_counters' = generate_object_id(type_counters, object_type)
         /\ UNCHANGED <<objs, pipes, objects, objects_by_type, next_position,
                         current_row_count>>
    ELSE LET counters1 == generate_object_id(type_counters, object_type)
             object_id == <<object_type, counters1[object_type]>>
             placed == IF position = << >> THEN next_position ELSE position[1]
             nxt == IF position = << >>
                    THEN calculate_next_position(next_position, current_row_count)
                    ELSE <<next_position, current_row_count>>
             properties == prepare_object_properties(object_type, custom_properties)
             o1 == create_hydraulic_object(object_id, object_type, properties, placed,
                                           GLOBAL_SCALE)
             o2 == add_object_ports_to_scene([o1 EXCEPT !.in_scene = TRUE], placed)
         IN  /\ type_counters' = counters1
             /\ next_position' = nxt[1]
             /\ current_row_count' = nxt[2]
             /\ objs' = Append(objs, o2)
             /\ objects' = [k \in DOMAIN objects \cup {object_id} |->
                               IF k = object_id THEN Len(objs) + 1 ELSE objects[k]]
             /\ objects_by_type' = register_object(objects_by_type, object_id, object_type)
             /\ lastCall' = [op |-> "add_object", ret |-> <<object_id>>,
                             signal |-> "object_added",
                             rejected |-> RejectedOf(object_type, custom_properties)]
             /\ UNCHANGED pipes

\* ComponentController.add_object(object_type, custom_properties,
\* position); position is << >> for None (automatic placement) or <<p>>.
\* The outcome notes the signal emitted and the properties reported
\* through property_validation_failed.
add_object(object_type, custom_properties, position) ==
    IF object_type \notin HYDRAULIC_OBJECT_TYPES
    THEN /\ lastCall' = [op |-> "add_object", ret |-> << >>,
                         signal |-> "object_creation_failed", rejected |-> {}]
         /\ UNCHANGED <<objs, pipes, compVars>>
    ELSE LET counters1 == generate_object_id(type_counters, object_type)
             object_id == <<object_type, counters1[object_type]>>
             placed == IF position = << >> THEN next_position ELSE position[1]
             nxt == IF position = << >>
                    THEN calculate_next_position(next_position, current_row_count)
                    ELSE <<next_position, current_row_count>>
             properties == prepare_object_properties(object_type, custom_properties)
             o1 == create_hydraulic_object(object_id, object_type, properties, placed,
                                           GLOBAL_SCALE)
             o2 == add_object_ports_to_scene([o1 EXCEPT !.in_scene = TRUE], placed)
         IN  /\ type_counters' = counters1
             /\ next_position' = nxt[1]
             /\ current_row_count' = nxt[2]
             /\ objs' = Append(objs, o2)
             /\ objects' = [k \in DOMAIN objects \cup {object_id} |->
                               IF k = object_id THEN Len(objs) + 1 ELSE objects[k]]
             /\ objects_by_type' = register_object(objects_by_type, object_id, object_type)
             /\ lastCall' = [op |-> "add_object", ret |-> <<object_id>>,
                             signal |-> "object_added",
                             rejected |-> RejectedOf(object_type, custom_properties)]
             /\ UNCHANGED pipes

\* HydraulicObject.update_properties
update_properties(o, new_properties) ==
    [o EXCEPT !.properties = Merge(@, new_properties)]

\* ComponentController.update_object_properties(object_id, properties);
\* the outcome notes the properties reported through
\* property_validation_failed
update_object_properties(object_id, properties) ==
    IF object_id \notin DOMAIN objects
    THEN /\ lastCall' = [op |-> "update_object_properties", ret |-> FALSE, rejected |-> {}]
         /\ UNCHANGED objs
    ELSE LET h == objects[object_id]
             object_type == objs[h].object_type
             validated_properties == ValidatedOf(object_type, properties)
             rejected == RejectedOf(object_type, properties)
         IN  IF DOMAIN validated_properties # {}
             THEN /\ objs' = [objs EXCEPT ![h] = update_properties(@, validated_properties)]
                  /\ lastCall' = [op |-> "update_object_properties", ret |-> TRUE,
                                  rejected |-> rejected]
             ELSE /\ lastCall' = [op |-> "update_object_properties", ret |-> FALSE,
                                  rejected |-> rejected]
                  /\ UNCHANGED objs

\* ComponentController.remove_object, on objects_by_type: the first list
\* that holds object_id loses it (an id is in the list of its type only)
unregister_by_type(by_type, object_id) ==
    [t \in DOMAIN by_type |-> SelectSeq(by_type[t], LAMBDA k : k # object_id)]

\* the removed object's own ports are disconnected and taken out of the
\* scene, then the object (ComponentController.remove_object, the loop and
\* removeItem)
remove_from_scene(o) ==
    [o EXCEPT !.in_scene = FALSE,
              !.ports = [i \in 1..Len(o.ports) |->
                  LET port == o.ports[i]
                      p1 == IF port.is_connected /\ port.connected_pipe # 0
                            THEN disconnect_from_pipe(port) ELSE port
                  IN  [p1 EXCEPT !.in_scene = FALSE]]]

\* ComponentController.remove_object(object_id)
remove_object(object_id) ==
    IF object_id \notin DOMAIN objects
    THEN /\ lastCall' = [op |-> "remove_object", id |-> object_id, ret |-> FALSE]
         /\ UNCHANGED <<objs, pipes, compVars>>
    ELSE LET h == objects[object_id]
         IN  /\ objs' = [objs EXCEPT ![h] = remove_from_scene(@)]
             /\ objects' = [k \in DOMAIN objects \ {object_id} |-> objects[k]]
             /\ objects_by_type' = unregister_by_type(objects_by_type, object_id)
             /\ lastCall' = [op |-> "remove_object", id |-> object_id, ret |-> TRUE]
             /\ UNCHANGED <<pipes, type_counters, next_position, current_row_count>>

\* ComponentController.clear_all, the loop: remove_object for every id of
\* the registry (a component the registry no longer names is not reached)
ClearedObjs(os, reg) ==
    [h \in DOMAIN os |->
        IF \E k \in DOMAIN reg : reg[k] = h THEN remove_from_scene(os[h]) ELSE os[h]]

\* ComponentController.clear_all
clear_all ==
    /\ objs' = ClearedObjs(objs, objects)
    /\ objects' = << >>
    /\ objects_by_type' = << >>
    /\ type_counters' = << >>
    /\ next_position' = first_position
    /\ current_row_count' = 0
    /\ lastCall' = [op |-> "clear_all", signal |-> "objects_cleared"]
    /\ UNCHANGED pipes

\* ComponentController.export_objects_data: to_dict of every value of the
\* registry, in the order of the handles (the order of registration)
export_objects_data(os, reg) ==
    LET hs == {reg[k] : k \in DOMAIN reg}
    IN  [i \in 1..Cardinality(hs) |->
            to_dict(os[CHOOSE h \in hs : Cardinality({g \in hs : g <= h}) = i])]

\* ComponentController.import_objects_data, the loop from entry i on:
\* from_dict, addItem, add_object_ports_to_scene, register_object; st holds
\* objs, objects and objects_by_type; type_counters is not touched
RECURSIVE ImportFrom(_, _, _, _)
ImportFrom(objects_data, i, st, global) ==
    IF i > Len(objects_data)
    THEN st
    ELSE LET o1 == from_dict(objects_data[i], global)
             o2 == add_object_ports_to_scene([o1 EXCEPT !.in_scene = TRUE], o1.pos)
             object_id == o2.component_id
         IN  ImportFrom(objects_data, i + 1,
                 [objs |-> Append(st.objs, o2),
                  objects |-> [k \in DOMAIN st.objects \cup {object_id} |->
                                  IF k = object_id THEN Len(st.objs) + 1 ELSE st.objects[k]],
                  objects_by_type |-> register_object(st.objects_by_type, object_id,
                                                      o2.object_type)],
                 global)

\* ComponentController.import_objects_data(objects_data)
import_objects_data(objects_data) ==
    LET st == ImportFrom(objects_data, 1,
                  [objs |-> ClearedObjs(objs, objects), objects |-> << >>,
                   objects_by_type |-> << >>], GLOBAL_SCALE)
    IN  /\ objs' = st.objs
        /\ objects' = st.objects
        /\ objects_by_type' = st.objects_by_type
        /\ type_counters' = << >>
        /\ next_position' = first_position
        /\ current_row_count' = 0
        /\ lastCall' = [op |-> "import_objects_data", signal |-> "objects_count_changed",
                        count |-> Cardinality(DOMAIN st.objects)]
        /\ UNCHANGED pipes

\* the user drags a movable component of the scene to p: Qt calls setPos,
\* hence HydraulicObject.itemChange
drag_object(h, p) ==
    /\ h \in DOMAIN objs
    /\ objs[h].in_scene /\ objs[h].movable
    /\ LET w2 == setPos(World, h, p)
       IN  objs' = w2.objs /\ pipes' = w2.pipes
    /\ UNCHANGED lastCall

\* ------------------------------------------------------------------
\* ui/work_area.py
\* ------------------------------------------------------------------
\* 0.1 and 5.0, in units of 1/ScaleDen
min_objects_scale == 1

max_objects_scale == 5 * ScaleDen

\* HydraulicWorkArea.get_all_hydraulic_objects
get_all_hydraulic_objects(os) == {h \in DOMAIN os : os[h].in_scene}

\* what set_objects_scale does to the objects when the scale changes:
\* update_scale() of every object of the scene against the new global scale
RescaleScene(os, scale) ==
    [h \in DOMAIN os |->
        IF h \in get_all_hydraulic_objects(os) THEN update_scale(os[h], scale) ELSE os[h]]

\* HydraulicWorkArea.set_objects_scale(scale)
set_objects_scale(requested) ==
    LET scale == Max(min_objects_scale, Min(max_objects_scale, requested))
    IN  /\ UNCHANGED lastCall
        /\ IF scale # objects_scale
           THEN /\ objects_scale' = scale
                /\ GLOBAL_SCALE' = scale
                /\ objs' = RescaleScene(objs, scale)
           ELSE UNCHANGED <<objs, objects_scale, GLOBAL_SCALE>>

\* HydraulicObject.update_scale(new_global_scale) called on one object
update_scale_of(h, new_global_scale) ==
    /\ h \in DOMAIN objs
    /\ objs' = [objs EXCEPT ![h] = update_scale(@, new_global_scale)]
    /\ UNCHANGED lastCall

\* ------------------------------------------------------------------
\* controllers/connection_controller.py
\* pipe_builder is << >> when no construction is in progress, else
\* <<[start_component, start_port_id, waypoints]>>; hovering_port is
\* << >> or <<(component_id, port_id)>>; a registered pipe "pipe_<n:03d>"
\* is the number n, and a port's connected_pipe is that number.
\* ------------------------------------------------------------------
\* ConnectionController.set_components_movable
set_components_movable(os, movable) ==
    [h \in DOMAIN os |-> IF os[h].in_scene THEN [os[h] EXCEPT !.movable = movable] ELSE os[h]]

\* ConnectionController.find_component_by_id: the handle of the scene item
\* with that id, 0 for None
find_component_by_id(os, component_id) ==
    LET hits == {h \in DOMAIN os : os[h].in_scene /\ os[h].component_id = component_id}
    IN  IF hits = {} THEN 0 ELSE CHOOSE h \in hits : TRUE

\* a variant of can_connect_to that lets two ports of one component be
\* connected
can_connect_to_same_component(os, a, i, b, j) ==
    /\ ~(os[a].ports[i].is_connected \/ os[b].ports[j].is_connected)
    /\ ~(a = b /\ i = j)

\* Port.can_connect_to, on port i of object a and port j of object b
can_connect_to(os, a, i, b, j) ==
    /\ ~(os[a].ports[i].is_connected \/ os[b].ports[j].is_connected)
    /\ ~(a = b /\ i = j)
    /\ a # b

\* ConnectionController.can_connect_ports (a port index 0 is None)
can_connect_ports(os, a, i, b, j) ==
    IF i = 0 \/ j = 0 THEN FALSE ELSE can_connect_to(os, a, i, b, j)

\* a cancellation that leaves the start port marked as connected to the
\* pipe that was being built
cancel_pipe_construction_marks_start(os) ==
    IF pipe_builder = << >>
    THEN <<os, pipes, pipe_counter, pipe_builder, hovering_port>>
    ELSE LET b == pipe_builder[1]
             i == get_port_by_id(os[b.start_component], b.start_port_id)
         IN  << [os EXCEPT ![b.start_component].ports[i] = connect_to_pipe(@, pipe_counter + 1)],
                pipes, pipe_counter, << >>, << >> >>

\* ConnectionController.cancel_pipe_construction with
\* InteractivePipeBuilder.cancel and cleanup_pipe_construction, on the
\* objects os, as the new values <<objs, pipes, pipe_counter, pipe_builder,
\* hovering_port>>: the builder goes with its preview path
cancel_pipe_construction(os) ==
    IF pipe_builder = << >>
    THEN <<os, pipes, pipe_counter, pipe_builder, hovering_port>>
    ELSE <<os, pipes, pipe_counter, << >>, << >> >>

\* the signal pipe_construction_cancelled, noted as the last outcome
CancelledCall == [op |-> "cancel_pipe_construction", ret |-> << >>]

\* ConnectionController.toggle_mode(active); active is << >> for None
toggle_mode(active) ==
    LET act == IF active = << >> THEN ~connection_mode ELSE active[1]
    IN  IF act = connection_mode
        THEN UNCHANGED <<objs, pipes, pipe_counter, connection_mode, pipe_builder,
                         hovering_port, lastCall>>
        ELSE /\ connection_mode' = act
             \* disable_connection_mode cancels a construction in progress
             /\ IF ~act /\ pipe_builder # << >>
                THEN LET r == cancel_pipe_construction(objs)
                     IN  /\ objs' = set_components_movable(r[1], ~act)
                         /\ pipes' = r[2]
                         /\ pipe_counter' = r[3]
                         /\ pipe_builder' = r[4]
                         /\ hovering_port' = r[5]
                         /\ lastCall' = CancelledCall
                ELSE /\ objs' = set_components_movable(objs, ~act)
                     /\ UNCHANGED <<pipes, pipe_counter, pipe_builder, hovering_port, lastCall>>

\* ConnectionController.on_port_hovered(component, port_id, is_entering)
on_port_hovered(h, port_id, is_entering) ==
    /\ h \in DOMAIN objs
    /\ UNCHANGED lastCall
    /\ UNCHANGED <<objs, pipes, connection_mode, pipe_builder, pipe_counter>>
    /\ IF ~connection_mode THEN UNCHANGED hovering_port
       ELSE hovering_port' = IF is_entering THEN <<<<objs[h].component_id, port_id>>>> ELSE << >>

\* ConnectionController.finish_pipe_construction(end_component_id,
\* end_port_id), as the new values <<objs, pipes, pipe_counter,
\* pipe_builder, hovering_port>>
finish_pipe_construction(end_component_id, end_port_id) ==
    LET unchanged == <<objs, pipes, pipe_counter, pipe_builder, hovering_port>>
    IN  IF pipe_builder = << >> THEN unchanged
        ELSE
        LET b == pipe_builder[1]
            end_component == find_component_by_id(objs, end_component_id)
        IN  IF end_component = 0 THEN unchanged
            ELSE
            LET start_port == get_port_by_id(objs[b.start_component], b.start_port_id)
                end_port == get_port_by_id(objs[end_component], end_port_id)
            IN  IF ~can_connect_ports(objs, b.start_component, start_port,
                                      end_component, end_port)
                THEN unchanged
                ELSE
                \* InteractivePipeBuilder.finish_pipe, register_pipe, then
                \* both ports connected and cleanup_pipe_construction
                LET pipe == OrthogonalPipe(b.start_component, b.start_port_id,
                                           end_component, end_port_id, b.waypoints, objs)
                    n == pipe_counter + 1
                    os1 == [objs EXCEPT ![b.start_component].ports[start_port] =
                                            connect_to_pipe(@, n)]
                    os2 == [os1 EXCEPT ![end_component].ports[end_port] =
                                            connect_to_pipe(@, n)]
                IN  << os2,
                       [k \in DOMAIN pipes \cup {n} |-> IF k = n THEN pipe ELSE pipes[k]],
                       n, << >>, << >> >>

ApplyFinish(r) ==
    /\ objs' = r[1]
    /\ pipes' = r[2]
    /\ pipe_counter' = r[3]
    /\ pipe_builder' = r[4]
    /\ hovering_port' = r[5]

\* ConnectionController.handle_mouse_click(position, button) for the left
\* button
handle_mouse_click(position) ==
    /\ UNCHANGED lastCall
    /\ UNCHANGED connection_mode
    /\ IF ~connection_mode \/ pipe_builder = << >>
       THEN UNCHANGED <<objs, pipes, pipe_counter, pipe_builder, hovering_port>>
       ELSE IF hovering_port # << >>
            THEN ApplyFinish(finish_pipe_construction(hovering_port[1][1], hovering_port[1][2]))
            \* add_waypoint
            ELSE /\ pipe_builder' = <<[pipe_builder[1] EXCEPT !.waypoints = Append(@, position)]>>
                 /\ UNCHANGED <<objs, pipes, pipe_counter, hovering_port>>

\* ConnectionController.on_port_clicked(component, port_id)
on_port_clicked(h, port_id) ==
    /\ h \in DOMAIN objs
    /\ UNCHANGED connection_mode
    /\ LET port == get_port_by_id(objs[h], port_id)
       IN  IF ~connection_mode \/ port = 0
           THEN UNCHANGED <<objs, pipes, pipe_counter, pipe_builder, hovering_port, lastCall>>
           ELSE IF objs[h].ports[port].is_connected
           THEN UNCHANGED <<objs, pipes, pipe_counter, pipe_builder, hovering_port, lastCall>>
           ELSE IF pipe_builder = << >>
           \* start_pipe_construction
           THEN /\ pipe_builder' = <<[start_component |-> h, start_port_id |-> port_id,
                                      waypoints |-> << >>]>>
                /\ UNCHANGED <<objs, pipes, pipe_counter, hovering_port, lastCall>>
           ELSE IF objs[pipe_builder[1].start_component].component_id = objs[h].component_id
                   /\ pipe_builder[1].start_port_id = port_id
           THEN /\ ApplyFinish(cancel_pipe_construction(objs))
                /\ lastCall' = CancelledCall
           ELSE /\ ApplyFinish(finish_pipe_construction(objs[h].component_id, port_id))
                /\ UNCHANGED lastCall

\* ConnectionController.remove_pipe(pipe_id): both ports are disconnected
\* (again in OrthogonalPipe.delete_pipe), the pipe leaves the scene and the
\* registry
remove_pipe(pipe_id) ==
    IF pipe_id \notin DOMAIN pipes
    THEN /\ lastCall' = [op |-> "remove_pipe", ret |-> FALSE]
         /\ UNCHANGED <<objs, pipes>>
    ELSE LET pipe == pipes[pipe_id]
             sp == get_port_by_id(objs[pipe.start_component], pipe.start_port)
             ep == get_port_by_id(objs[pipe.end_component], pipe.end_port)
             os1 == IF sp = 0 THEN objs
                    ELSE [objs EXCEPT ![pipe.start_component].ports[sp] = disconnect_from_pipe(@)]
             os2 == IF ep = 0 THEN os1
                    ELSE [os1 EXCEPT ![pipe.end_component].ports[ep] = disconnect_from_pipe(@)]
         IN  /\ objs' = os2
             /\ pipes' = [k \in DOMAIN pipes \ {pipe_id} |-> pipes[k]]
             /\ lastCall' = [op |-> "remove_pipe", ret |-> TRUE]

\* a variant of start_pipe_construction that does not cancel the
\* construction in progress: the earlier builder's preview path stays in
\* the scene
start_pipe_construction_keeps_earlier(os, h, port_id) ==
    <<os, pipes, pipe_counter,
      <<[start_component |-> h, start_port_id |-> port_id, waypoints |-> << >>]>>
          \o pipe_builder,
      hovering_port>>

\* ConnectionController.start_pipe_construction(start_component,
\* start_port_id), as the new values <<objs, pipes, pipe_counter,
\* pipe_builder, hovering_port>>: a construction in progress is cancelled
\* first. pipe_builder lists the builders whose preview path is in the
\* scene, the current one first.
start_pipe_construction(os, h, port_id) ==
    LET r == cancel_pipe_construction(os)
    IN  <<r[1], r[2], r[3],
          <<[start_component |-> h, start_port_id |-> port_id, waypoints |-> << >>]>> \o r[4],
          r[5]>>

\* the loop of ConnectionController.clear_all: remove_pipe for every
\* registered pipe, on the objects os
RECURSIVE RemoveAllPipes(_, _)
RemoveAllPipes(os, ps) ==
    IF DOMAIN ps = {} THEN os
    ELSE LET n == CHOOSE k \in DOMAIN ps : TRUE
             pipe == ps[n]
             sp == get_port_by_id(os[pipe.start_component], pipe.start_port)
             ep == get_port_by_id(os[pipe.end_component], pipe.end_port)
             os1 == IF sp = 0 THEN os
                    ELSE [os EXCEPT ![pipe.start_component].ports[sp] = disconnect_from_pipe(@)]
             os2 == IF ep = 0 THEN os1
                    ELSE [os1 EXCEPT ![pipe.end_component].ports[ep] = disconnect_from_pipe(@)]
         IN  RemoveAllPipes(os2, [k \in DOMAIN ps \ {n} |-> ps[k]])

\* ConnectionController.clear_all (and cleanup): a construction in
\* progress is cancelled, every pipe is removed, the counter goes back to
\* 0 and toggle_mode(False) ends connection mode
connection_clear_all ==
    LET r == cancel_pipe_construction(objs)
        os1 == RemoveAllPipes(r[1], pipes)
    IN  /\ pipes' = << >>
        /\ pipe_counter' = 0
        /\ pipe_builder' = r[4]
        /\ hovering_port' = r[5]
        /\ connection_mode' = FALSE
        /\ objs' = IF connection_mode THEN set_components_movable(os1, TRUE) ELSE os1
        /\ lastCall' = [op |-> "connection_clear_all", ret |-> << >>,
                        cancelled |-> pipe_builder # << >>]

\* ------------------------------------------------------------------
\* The application after construction, and the requests made to it
\* ------------------------------------------------------------------
\* no call under examination
NoRoute == [start |-> <<0, 0>>, end |-> <<0, 0>>, waypoints |-> << >>, points |-> << >>]

Init ==
    /\ objs = << >>
    /\ objects = << >>
    /\ objects_by_type = << >>
    /\ type_counters = << >>
    /\ next_position = first_position
    /\ current_row_count = 0
    /\ GLOBAL_SCALE = ScaleDen
    /\ objects_scale = ScaleDen
    /\ connection_mode = FALSE
    /\ pipe_builder = << >>
    /\ hovering_port = << >>
    /\ pipes = << >>
    /\ pipe_counter = 0
    /\ transformation_history = << >>
    /\ lastCall = [op |-> "__init__", ret |-> TRUE]
    /\ route = NoRoute

\* object types asked for: two registered types with different templates
\* and native scales, and one unregistered type
TypeInputs == {"PUMP", "RESERVOIR", "JUNCTION"}

\* positions a component is dragged to
DragInputs == {Pt(Px(100), Px(220))}

\* scales asked for: 0.0 is below min_objects_scale
ScaleInputs == {0, ScaleDen, 2 * ScaleDen}

\* the sequences without repetition over a set of items
RECURSIVE SeqsOver(_)
SeqsOver(S) ==
    {<< >>} \cup UNION {{<<x>> \o q : q \in SeqsOver(S \ {x})} : x \in S}

\* what scene.selectedItems() can return: hydraulic objects of the scene,
\* alone or after a selected item of another class (0)
HydraulicSelections == SeqsOver(get_all_hydraulic_objects(objs))

Selections == HydraulicSelections \cup {<<0>> \o q : q \in HydraulicSelections}

\* the model holds positions as integers: a group rotation is followed
\* when the centre of the group is one
CenterIsExact(selected) ==
    LET hs == _filter_hydraulic_objects(World, selected)
        c == _calculate_objects_center(World, hs)
    IN  c[1] % c[3] = 0 /\ c[2] % c[3] = 0

HistoryOpen == Len(transformation_history) < MaxOps

AddObject ==
    /\ Len(objs) < MaxObjects
    /\ \E object_type \in TypeInputs : add_object(object_type, << >>, << >>)
    /\ UNCHANGED <<scaleVars, connVars, transformation_history>>
    /\ UNCHANGED route

DragObject ==
    /\ \E h \in DOMAIN objs, p \in DragInputs : drag_object(h, p)
    /\ UNCHANGED <<compVars, scaleVars, connVars, transformation_history>>
    /\ UNCHANGED route

SetObjectsScale ==
    /\ \E s \in ScaleInputs : set_objects_scale(s)
    /\ UNCHANGED <<pipes, compVars, connVars, transformation_history>>
    /\ UNCHANGED route

UpdateScale ==
    /\ \E h \in DOMAIN objs, s \in ScaleInputs : update_scale_of(h, s)
    /\ UNCHANGED <<pipes, compVars, scaleVars, connVars, transformation_history>>
    /\ UNCHANGED route

\* TransformController.rotate_left_90 / rotate_right_90
RotateLeft90 ==
    /\ HistoryOpen
    /\ \E selected \in Selections : CenterIsExact(selected) /\ rotate_objects(selected, -90)
    /\ UNCHANGED <<compVars, scaleVars, connVars>>
    /\ UNCHANGED route

RotateRight90 ==
    /\ HistoryOpen
    /\ \E selected \in Selections : CenterIsExact(selected) /\ rotate_objects(selected, 90)
    /\ UNCHANGED <<compVars, scaleVars, connVars>>
    /\ UNCHANGED route

\* TransformController.align_objects_horizontal / align_objects_vertical
AlignHorizontal ==
    /\ HistoryOpen
    /\ \E selected \in Selections : _align_objects(selected, "horizontal")
    /\ UNCHANGED <<compVars, scaleVars, connVars>>
    /\ UNCHANGED route

AlignVertical ==
    /\ HistoryOpen
    /\ \E selected \in Selections : _align_objects(selected, "vertical")
    /\ UNCHANGED <<compVars, scaleVars, connVars>>
    /\ UNCHANGED route

FlipHorizontal ==
    /\ HistoryOpen
    /\ \E selected \in Selections : flip_objects(selected, "horizontal")
    /\ UNCHANGED <<compVars, scaleVars, connVars>>
    /\ UNCHANGED route

FlipVertical ==
    /\ HistoryOpen
    /\ \E selected \in Selections : flip_objects(selected, "vertical")
    /\ UNCHANGED <<compVars, scaleVars, connVars>>
    /\ UNCHANGED route

Next ==
    \/ AddObject
    \/ DragObject
    \/ SetObjectsScale
    \/ RotateRight90
    \/ AlignHorizontal
    \/ FlipHorizontal
    \/ FlipVertical

Spec == Init /\ [][Next]_vars

\* ------------------------------------------------------------------
\* Properties of port geometry under moves, scale changes and transforms
\* ------------------------------------------------------------------
\* the ports of object o that are in the scene
ScenePorts(o) == {i \in 1..Len(o.ports) : o.ports[i].in_scene}

\* C1: after every move, scale change, rotation, alignment and flip, each
\* port that is in the scene sits at its component's scene position plus
\* the port's relative position (initial_position).
C1_PortsFollowComponent ==
    \A h \in DOMAIN objs : \A i \in ScenePorts(objs[h]) :
        objs[h].ports[i].pos = PAdd(objs[h].pos, objs[h].ports[i].initial_position)

\* a two-port component that has been dragged, rescaled by the global
\* zoom, rotated and flipped
C1_Witness ==
    \E h \in DOMAIN objs :
        /\ objs[h].in_scene /\ Len(objs[h].ports) = 2
        /\ objs[h].pos \in DragInputs
        /\ objs[h].current_scale # objs[h].base_svg_scale * ScaleDen
        /\ objs[h].rotation # 0
        /\ objs[h].transform # <<1, 1>>
        /\ objs[h].ports[1].initial_position # objs[h].ports[2].initial_position

\* the relative and the scene position of every port of o
PortGeometry(o) ==
    [i \in 1..Len(o.ports) |-> <<o.ports[i].initial_position, o.ports[i].pos>>]

\* scales passed to update_scale: 1.0 and 2.0
ScaleArgs == {ScaleDen, 2 * ScaleDen}

\* update_scale(s1), update_scale(s2), update_scale(s1) on one object
RoundTripScale(o, s1, s2) == update_scale(update_scale(update_scale(o, s1), s2), s1)

\* a component of the same type constructed while the global scale is s1
\* and added to the scene at the position of o
FreshAt(o, s1) ==
    add_object_ports_to_scene(
        [create_hydraulic_object(o.component_id, o.object_type, o.properties, o.pos, s1)
            EXCEPT !.in_scene = TRUE], o.pos)

\* C4 as stated: for any component and any scales s1, s2, update_scale(s1),
\* update_scale(s2), update_scale(s1) leave every port at the relative and
\* scene position of a freshly constructed component at scale s1.
C4_RoundTripIsFresh ==
    \A h \in get_all_hydraulic_objects(objs) : \A s1 \in ScaleArgs, s2 \in ScaleArgs :
        PortGeometry(RoundTripScale(objs[h], s1, s2)) = PortGeometry(FreshAt(objs[h], s1))

\* C4 amended: the round trip gives the ports of a fresh component at s1
\* whenever one of the three calls changes the effective scale (s1 # s2,
\* or s1 is not the scale the component has); when s1 = s2 is the scale
\* the component already has, the three calls change nothing and the ports
\* stay where they are, rotated or mirrored as they may be.
C4_RoundTripIsFreshWhenRescaled ==
    \A h \in get_all_hydraulic_objects(objs) : \A s1 \in ScaleArgs, s2 \in ScaleArgs :
        IF s1 # s2 \/ objs[h].base_svg_scale * s1 # objs[h].current_scale
        THEN PortGeometry(RoundTripScale(objs[h], s1, s2)) = PortGeometry(FreshAt(objs[h], s1))
        ELSE RoundTripScale(objs[h], s1, s2) = objs[h]

\* a component rescaled by the global zoom and then rotated or mirrored, so
\* that its ports are not where a fresh component has them, and a scale
\* for which the round trip does rescale
C4_Witness ==
    \E h \in get_all_hydraulic_objects(objs) :
        /\ objs[h].current_scale # objs[h].base_svg_scale * ScaleDen
        /\ PortGeometry(objs[h]) # PortGeometry(FreshAt(objs[h], GLOBAL_SCALE))
        /\ \E s1 \in ScaleArgs : objs[h].base_svg_scale * s1 # objs[h].current_scale

\* C5: every live component has as many ports as its type has port
\* templates, and the port at each index carries the id and the kind of
\* the template at that index, whatever rotations, alignments, flips, moves
\* and scale changes have taken place.
C5_PortsMatchTemplates ==
    \A h \in get_all_hydraulic_objects(objs) :
        LET cfg == get_port_configs(objs[h].object_type)
        IN  /\ Len(objs[h].ports) = Len(cfg)
            /\ \A i \in 1..Len(cfg) :
                   /\ objs[h].ports[i].port_id = cfg[i].id
                   /\ objs[h].ports[i].port_type = cfg[i].type

\* the history entries that name the component of object h
EntriesOn(h) ==
    {k \in 1..Len(transformation_history) :
        \E j \in 1..Len(transformation_history[k].objects) :
            transformation_history[k].objects[j] = objs[h].component_id}

\* a two-port component that has been rotated and then mirrored, at a
\* scale other than the initial one
C5_Witness ==
    \E h \in get_all_hydraulic_objects(objs) :
        /\ Len(objs[h].ports) = 2
        /\ objs[h].current_scale # objs[h].base_svg_scale * ScaleDen
        /\ \E k \in EntriesOn(h), l \in EntriesOn(h) :
               /\ transformation_history[k].operation = "rotation"
               /\ transformation_history[l].operation = "flip_vertical"

\* the scene after the flip of a selection applied twice
FlipTwice(w, selected, flip_type) == FlipScene(FlipScene(w, selected, flip_type), selected, flip_type)

\* C6: flipping a selection horizontally twice puts every port back at the
\* relative and the scene position it had before the first flip, and so
\* does flipping it vertically twice.
C6_FlipTwiceRestoresPorts ==
    \A selected \in Selections : \A flip_type \in {"horizontal", "vertical"} :
        \A h \in DOMAIN objs :
            PortGeometry(FlipTwice(World, selected, flip_type).objs[h]) = PortGeometry(objs[h])

\* the same selection has been flipped horizontally twice in a row, and
\* one of its components has a port off the vertical axis, which the first
\* flip moved
C6_Witness ==
    /\ Len(transformation_history) = 2
    /\ transformation_history[1].operation = "flip_horizontal"
    /\ transformation_history[2].operation = transformation_history[1].operation
    /\ transformation_history[2].objects = transformation_history[1].objects
    /\ transformation_history[2].parameters = transformation_history[1].parameters
    /\ \E h \in get_all_hydraulic_objects(objs) :
           /\ 1 \in EntriesOn(h)
           /\ X(objs[h].ports[1].initial_position) # 0
           /\ PortGeometry(FlipScene(World, <<h>>, "horizontal").objs[h]) # PortGeometry(objs[h])

\* the rotation of a selection applied n times
RECURSIVE RotateTimes(_, _, _, _)
RotateTimes(w, selected, angle_degrees, n) ==
    IF n = 0 THEN w
    ELSE RotateTimes(RotateScene(w, selected, angle_degrees), selected, angle_degrees, n - 1)

\* C7: a single selected component rotated by 90 degrees four times in
\* the same direction has every port back at its relative position (to
\* the resolution of the model, 0.1 pixel) and is itself at the scene
\* position it had; a rotation to the left followed by one to the right
\* leaves every relative position as it was.
C7_FourQuarterTurnsRestore ==
    \A h \in get_all_hydraulic_objects(objs) :
        /\ \A angle_degrees \in {-90, 90} :
               LET o4 == RotateTimes(World, <<h>>, angle_degrees, 4).objs[h]
               IN  /\ PortGeometry(o4) = PortGeometry(objs[h])
                   /\ o4.pos = objs[h].pos
        /\ LET o2 == RotateScene(RotateScene(World, <<h>>, -90), <<h>>, 90).objs[h]
           IN  PortGeometry(o2) = PortGeometry(objs[h])

\* one component alone has been rotated to the right twice, its ports are
\* off its origin, and a further quarter turn moves them
C7_Witness ==
    /\ Len(transformation_history) = 2
    /\ transformation_history[1].operation = "rotation"
    /\ transformation_history[1].parameters.angle = 90
    /\ transformation_history[2].operation = transformation_history[1].operation
    /\ transformation_history[2].objects = transformation_history[1].objects
    /\ transformation_history[2].parameters = transformation_history[1].parameters
    /\ Len(transformation_history[1].objects) = 1
    /\ \E h \in get_all_hydraulic_objects(objs) :
           /\ 1 \in EntriesOn(h)
           /\ objs[h].rotation = 180
           /\ PortGeometry(RotateScene(World, <<h>>, 90).objs[h]) # PortGeometry(objs[h])

\* the outcome of a transform request that is refused: False is returned,
\* transformation_failed is emitted, and objects, ports, pipes and history
\* are as before
Refused(op) ==
    /\ lastCall' = [op |-> op, ret |-> FALSE, signal |-> "transformation_failed"]
    /\ objs' = objs
    /\ pipes' = pipes
    /\ transformation_history' = transformation_history

\* the outcome of a transform request that is carried out on the
\* hydraulic components hs of the selection, as the scene w2
CarriedOut(w2, hs) ==
    /\ lastCall'.ret = TRUE
    /\ objs' = w2.objs
    /\ Len(transformation_history') = Len(transformation_history) + 1
    /\ transformation_history'[Len(transformation_history')].objects = IdsOf(World, hs)

\* C12: a rotation or a flip asked for an empty list or a list without a
\* hydraulic component, and an alignment asked for fewer than two
\* hydraulic components, return False with transformation_failed, move no
\* component and no port, and add nothing to the history; items of another
\* class in a selection that is otherwise valid are ignored, and the
\* request is carried out on the hydraulic components alone.
C12_RefusedRequestsChangeNothing ==
    [][\A selected \in Selections :
          LET hs == SelectSeq(selected, LAMBDA x : x # 0)
          IN  /\ \A angle_degrees \in {-90, 90} :
                     (lastCall'.op = "rotate_objects" /\ rotate_objects(selected, angle_degrees)) =>
                         IF hs = << >> THEN Refused("rotate_objects")
                         ELSE CarriedOut(RotateScene(World, hs, angle_degrees), hs)
              /\ \A flip_type \in {"horizontal", "vertical"} :
                     (lastCall'.op = "flip_objects" /\ flip_objects(selected, flip_type)) =>
                         IF hs = << >> THEN Refused("flip_objects")
                         ELSE CarriedOut(FlipScene(World, hs, flip_type), hs)
              /\ \A alignment_type \in {"horizontal", "vertical"} :
                     (lastCall'.op = "align_objects" /\ _align_objects(selected, alignment_type)) =>
                         IF Len(hs) < 2 THEN Refused("align_objects")
                         ELSE CarriedOut(AlignScene(World, hs, alignment_type), hs)]_vars

\* an alignment has just been refused in a scene of two components that
\* holds an earlier transformation, and a flip of a selection that mixes
\* a component with an item of another class is possible
C12_Witness ==
    /\ lastCall = [op |-> "align_objects", ret |-> FALSE, signal |-> "transformation_failed"]
    /\ Len(objs) = 2
    /\ Len(transformation_history) = 1
    /\ <<0, 1>> \in Selections

\* C14: a component restored from its serialized form, whatever the global
\* scale at the time of the restore, has the id, the type, the properties
\* and the scene position it was saved with, one fresh port per template
\* of its type, and the saved scale: its effective scale is the saved
\* current_scale and each port's relative position is the template's base
\* position times that scale.
C14_RestoreReappliesSavedScale ==
    \A h \in get_all_hydraulic_objects(objs) : \A global \in ScaleArgs :
        LET data == to_dict(objs[h])
            restored == from_dict(data, global)
            cfg == get_port_configs(objs[h].object_type)
            saved == data.scale_info.current_scale
        IN  /\ restored.component_id = objs[h].component_id
            /\ restored.object_type = objs[h].object_type
            /\ restored.properties = objs[h].properties
            /\ restored.pos = objs[h].pos
            /\ Len(restored.ports) = Len(cfg)
            /\ \A i \in 1..Len(cfg) :
                   /\ restored.ports[i].port_id = cfg[i].id
                   /\ restored.ports[i].port_type = cfg[i].type
                   /\ ~restored.ports[i].is_connected
                   /\ restored.ports[i].initial_position =
                          <<cfg[i].position[1] * saved, cfg[i].position[2] * saved>>
            /\ restored.current_scale = saved

\* C15: the creation of a component of an unregistered type fails and
\* leaves nothing behind: the constructor raises before any shape or port
\* exists, add_object returns None with object_creation_failed, and the
\* object registry, the registry by type, the id counters, the placement
\* cursor and the scene are as before.
C15_UnknownTypeLeavesNothing ==
    [][\A object_type \in TypeInputs \ HYDRAULIC_OBJECT_TYPES :
          (lastCall'.op = "add_object" /\ add_object(object_type, << >>, << >>)) =>
              /\ TryHydraulicObject(<<object_type, 1>>, object_type, << >>, GLOBAL_SCALE) = << >>
              /\ lastCall'.ret = << >>
              /\ lastCall'.signal = "object_creation_failed"
              /\ objs' = objs /\ pipes' = pipes
              /\ objects' = objects
              /\ objects_by_type' = objects_by_type
              /\ type_counters' = type_counters
              /\ next_position' = next_position
              /\ current_row_count' = current_row_count]_vars

\* a creation has just failed in a scene that holds a component: the
\* registry, the counters and the cursor have values to lose
C15_Witness ==
    /\ lastCall.op = "add_object"
    /\ lastCall.ret = << >>
    /\ Len(objs) = 1
    /\ DOMAIN objects # {}
    /\ next_position # first_position

\* ------------------------------------------------------------------
\* The application in use for connecting ports: connection mode and the
\* interactive construction of pipes
\* ------------------------------------------------------------------
\* points of empty space that are clicked
WaypointInputs == {Pt(Px(180), Px(160)), Pt(Px(60), Px(40))}

\* the ports the mouse can reach: ports in the scene
ReachablePorts == {<<h, i>> \in (DOMAIN objs) \X {1, 2} : i \in ScenePorts(objs[h])}

ToggleMode ==
    /\ toggle_mode(<< >>)
    /\ UNCHANGED <<compVars, scaleVars, transformation_history>>
    /\ UNCHANGED route

PortHovered ==
    /\ \E hp \in ReachablePorts, is_entering \in BOOLEAN :
           on_port_hovered(hp[1], objs[hp[1]].ports[hp[2]].port_id, is_entering)
    /\ UNCHANGED <<compVars, scaleVars, transformation_history>>
    /\ UNCHANGED route

\* a click of the left button in the work area; over empty space it is
\* followed while the construction holds fewer than MaxWaypoints
MouseClick ==
    /\ pipe_counter < MaxPipes
    /\ pipe_builder # << >> /\ hovering_port = << >>
           => Len(pipe_builder[1].waypoints) < MaxWaypoints
    /\ \E position \in WaypointInputs : handle_mouse_click(position)
    /\ UNCHANGED <<compVars, scaleVars, transformation_history>>
    /\ UNCHANGED route

PortClicked ==
    /\ pipe_counter < MaxPipes
    /\ \E hp \in ReachablePorts : on_port_clicked(hp[1], objs[hp[1]].ports[hp[2]].port_id)
    /\ UNCHANGED <<compVars, scaleVars, transformation_history>>
    /\ UNCHANGED route

NextConnect ==
    \/ AddObject
    \/ ToggleMode
    \/ PortHovered
    \/ MouseClick
    \/ PortClicked

SpecConnect == Init /\ [][NextConnect]_vars

\* the states of a pipe construction
Idle == pipe_builder = << >>

Building == pipe_builder # << >>

\* what a click on port i of object h, or on empty space at position, must
\* do in connection mode
ConstructionStep(h, i, position) ==
    LET port_id == objs[h].ports[i].port_id
        free == ~objs[h].ports[i].is_connected
        b == pipe_builder[1]
        n == pipe_counter + 1
    IN  /\ (Idle /\ free /\ on_port_clicked(h, port_id)) =>
               /\ pipe_builder' = <<[start_component |-> h, start_port_id |-> port_id,
                                     waypoints |-> << >>]>>
               /\ pipes' = pipes /\ pipe_counter' = pipe_counter
        /\ (Building /\ hovering_port = << >> /\ handle_mouse_click(position)) =>
               /\ pipe_builder' = <<[b EXCEPT !.waypoints = Append(@, position)]>>
               /\ pipes' = pipes /\ pipe_counter' = pipe_counter
        /\ (Building /\ free /\ on_port_clicked(h, port_id)) =>
               IF b.start_component = h /\ b.start_port_id = port_id
               THEN /\ pipe_builder' = << >>
                    /\ pipes' = pipes /\ pipe_counter' = pipe_counter
               ELSE b.start_component # h =>
                    /\ pipe_builder' = << >>
                    /\ pipe_counter' = n
                    /\ n \notin DOMAIN pipes
                    /\ DOMAIN pipes' = DOMAIN pipes \cup {n}
                    /\ \A k \in DOMAIN pipes : pipes'[k] = pipes[k]
                    /\ pipes'[n].start_component = b.start_component
                    /\ pipes'[n].start_port = b.start_port_id
                    /\ pipes'[n].end_component = h
                    /\ pipes'[n].end_port = port_id
                    /\ pipes'[n].waypoints = b.waypoints

\* C10: in connection mode a click on a free port while Idle starts a
\* construction from that port; while Building a click on empty space
\* appends one waypoint and stays Building, a click on the start port
\* ends the construction without a pipe, and a click on a free port of
\* another component ends it with exactly one new registered pipe from the
\* start port to the clicked port that carries the waypoints in order;
\* after either ending the controller is Idle.
C10_ConstructionProtocol ==
    [][connection_mode =>
          \A hp \in ReachablePorts, position \in WaypointInputs :
              ConstructionStep(hp[1], hp[2], position)]_vars

\* a construction has been completed: the controller is Idle in
\* connection mode and the first pipe carries two waypoints in the order
\* of the clicks, between ports now connected to it
C10_Witness ==
    /\ connection_mode /\ Idle
    /\ pipe_counter = 1 /\ DOMAIN pipes = {1}
    /\ pipes[1].waypoints = <<Pt(Px(180), Px(160)), Pt(Px(60), Px(40))>>
    /\ pipes[1].start_component # pipes[1].end_component
    /\ \E i \in 1..Len(objs[pipes[1].end_component].ports) :
           /\ objs[pipes[1].end_component].ports[i].port_id = pipes[1].end_port
           /\ objs[pipes[1].end_component].ports[i].connected_pipe = 1

\* the connection state of the ports of the objects of os
PortLinks(os) ==
    [h \in DOMAIN os |->
        [i \in 1..Len(os[h].ports) |->
            <<os[h].ports[i].is_connected, os[h].ports[i].connected_pipe>>]]

\* a step leaves the port connection states, the pipe registry and the
\* pipe counter as they are
LinksKept ==
    /\ \A h \in DOMAIN objs : PortLinks(objs')[h] = PortLinks(objs)[h]
    /\ pipes' = pipes
    /\ pipe_counter' = pipe_counter

\* a step in which cancel_pipe_construction runs on a construction in
\* progress: the click on the start port, or the end of connection mode
CancelStep ==
    /\ Building
    /\ \/ \E hp \in ReachablePorts :
              /\ hp[1] = pipe_builder[1].start_component
              /\ objs[hp[1]].ports[hp[2]].port_id = pipe_builder[1].start_port_id
              /\ on_port_clicked(hp[1], objs[hp[1]].ports[hp[2]].port_id)
       \/ connection_mode /\ toggle_mode(<< >>)

\* C11: cancelling a construction, with any number of waypoints, removes
\* the builder with its preview path and leaves every port's is_connected
\* flag and connected_pipe reference, the pipe registry and the pipe
\* counter as they were before the construction started: neither the step
\* that starts a construction, nor a step taken while it is in progress,
\* nor the cancellation changes any of them.
C11_CancelLeavesNoTrace ==
    [][/\ Building' => LinksKept
       /\ CancelStep => (Idle' /\ hovering_port' = << >> /\ LinksKept)]_vars

\* a construction has been cancelled while a pipe was registered: the
\* controller is Idle, the pipe is in the registry and its end ports are
\* the only connected ones
C11_Witness ==
    /\ lastCall = CancelledCall
    /\ Idle
    /\ DOMAIN pipes = {1}
    /\ \A h \in DOMAIN objs : \A i \in 1..Len(objs[h].ports) :
           objs[h].ports[i].is_connected <=>
               \/ (h = pipes[1].start_component /\ objs[h].ports[i].port_id = pipes[1].start_port)
               \/ (h = pipes[1].end_component /\ objs[h].ports[i].port_id = pipes[1].end_port)

\* ------------------------------------------------------------------
\* A scene with a pipe, and the operations that act on it.  PipeScene is
\* the state SpecConnect reaches by adding two pumps, entering connection
\* mode, clicking port 2 of the first pump, clicking two points of empty
\* space, clicking port 1 of the second pump and leaving connection mode.
\* ------------------------------------------------------------------
\* a pump as add_object leaves it at its automatic position
PlacedPump(n, position) ==
    add_object_ports_to_scene(
        [create_hydraulic_object(<<"PUMP", n>>, "PUMP", << >>, position, ScaleDen)
            EXCEPT !.in_scene = TRUE], position)

PipeSceneWaypoints == <<Pt(Px(180), Px(160)), Pt(Px(60), Px(40))>>

PipeSceneUnconnected ==
    <<PlacedPump(1, first_position),
      PlacedPump(2, PAdd(first_position, Pt(X(position_offset), 0)))>>

PipeSceneObjs ==
    [PipeSceneUnconnected EXCEPT ![1].ports[2] = connect_to_pipe(@, 1),
                                 ![2].ports[1] = connect_to_pipe(@, 1)]

PipeScene ==
    /\ objs = PipeSceneObjs
    /\ objects = [k \in {<<"PUMP", 1>>, <<"PUMP", 2>>} |-> k[2]]
    /\ objects_by_type = [t \in {"PUMP"} |-> << <<"PUMP", 1>>, <<"PUMP", 2>> >>]
    /\ type_counters = [t \in {"PUMP"} |-> 2]
    /\ next_position = PAdd(first_position, Pt(2 * X(position_offset), 0))
    /\ current_row_count = 2
    /\ GLOBAL_SCALE = ScaleDen
    /\ objects_scale = ScaleDen
    /\ connection_mode = FALSE
    /\ pipe_builder = << >>
    /\ hovering_port = << >>
    /\ pipes = [n \in {1} |->
                   OrthogonalPipe(1, "2", 2, "1", PipeSceneWaypoints, PipeSceneUnconnected)]
    /\ pipe_counter = 1
    /\ transformation_history = << >>
    /\ lastCall = [op |-> "add_object", ret |-> << <<"PUMP", 2>> >>,
                   signal |-> "object_added", rejected |-> {}]
    /\ route = NoRoute

InitPipes == PipeScene

\* ids asked to be removed: the registered ones and one that never was
RemoveInputs == DOMAIN objects \cup {<<"VALVE", 1>>}

RemoveObject ==
    /\ \E object_id \in RemoveInputs : remove_object(object_id)
    /\ UNCHANGED <<scaleVars, connVars, transformation_history>>
    /\ UNCHANGED route

RemovePipe ==
    /\ \E pipe_id \in 1..MaxPipes : remove_pipe(pipe_id)
    /\ UNCHANGED <<compVars, scaleVars, connVars, transformation_history>>
    /\ UNCHANGED route

\* a rotation and a mirror of one selected component
RotateOneRight90 ==
    /\ HistoryOpen
    /\ \E h \in get_all_hydraulic_objects(objs) : rotate_objects(<<h>>, 90)
    /\ UNCHANGED <<compVars, scaleVars, connVars>>
    /\ UNCHANGED route

FlipOneHorizontal ==
    /\ HistoryOpen
    /\ \E h \in get_all_hydraulic_objects(objs) : flip_objects(<<h>>, "horizontal")
    /\ UNCHANGED <<compVars, scaleVars, connVars>>
    /\ UNCHANGED route

NextPipes ==
    \/ DragObject
    \/ SetObjectsScale
    \/ RotateOneRight90
    \/ FlipOneHorizontal
    \/ AlignHorizontal
    \/ RemoveObject
    \/ RemovePipe

SpecPipes == InitPipes /\ [][NextPipes]_vars

\* ------------------------------------------------------------------
\* Properties of registered pipes
\* ------------------------------------------------------------------
\* the scene position of the port a pipe end names (the pipe's own origin
\* when the port cannot be resolved)
EndPortPos(os, component, port_id) ==
    LET i == get_port_by_id(os[component], port_id)
    IN  IF i = 0 THEN <<0, 0>> ELSE os[component].ports[i].pos

\* C2: for every registered pipe, once an operation that moves one of its
\* end ports has returned (move, scale change, rotation, alignment, flip),
\* the routed path starts at the start port's current scene position and
\* ends at the end port's current scene position.
C2_PipesFollowPorts ==
    \A n \in DOMAIN pipes :
        LET pipe == pipes[n]
        IN  /\ pipe.path # << >>
            /\ pipe.path[1] = EndPortPos(objs, pipe.start_component, pipe.start_port)
            /\ pipe.path[Len(pipe.path)] = EndPortPos(objs, pipe.end_component, pipe.end_port)

\* C21: when a component is moved, its ports are at the new position plus
\* their relative position and every pipe of a connected port of the
\* component has been recomputed from them, before the move returns: the
\* pipe's path starts and ends on the current positions of its two ports
C21_MoveResyncsPortsThenPipes ==
    [][\A h \in DOMAIN objs, p \in DragInputs :
          (objs[h].pos # p /\ objs'[h].pos = p /\ drag_object(h, p)) =>
              /\ \A i \in 1..Len(objs'[h].ports) :
                     objs'[h].ports[i].pos = PAdd(p, objs'[h].ports[i].initial_position)
              /\ \A n \in connected_pipes_of(objs'[h]) \cap DOMAIN pipes' :
                     /\ pipes'[n].path[1] =
                            EndPortPos(objs', pipes'[n].start_component, pipes'[n].start_port)
                     /\ pipes'[n].path[Len(pipes'[n].path)] =
                            EndPortPos(objs', pipes'[n].end_component, pipes'[n].end_port)]_vars

\* the first pump has been dragged while its port 2 carries pipe 1: the
\* pipe starts on the port's new position
C21_Witness ==
    /\ objs[1].in_scene
    /\ objs[1].pos \in DragInputs
    /\ objs[1].ports[2].is_connected
    /\ 1 \in DOMAIN pipes
    /\ objs[1].ports[2].pos = PAdd(objs[1].pos, objs[1].ports[2].initial_position)
    /\ pipes[1].path[1] = objs[1].ports[2].pos

\* ------------------------------------------------------------------
\* Pipes drawn and removed: the interactive construction of SpecConnect
\* together with remove_pipe (SpecLinks)
\* ------------------------------------------------------------------
NextLinks ==
    \/ AddObject
    \/ ToggleMode
    \/ PortHovered
    \/ MouseClick
    \/ PortClicked
    \/ RemovePipe

SpecLinks == Init /\ [][NextLinks]_vars

\* the two ends of a pipe, each as (component, port id)
EndPorts(pipe) ==
    {<<pipe.start_component, pipe.start_port>>, <<pipe.end_component, pipe.end_port>>}

\* the registered pipes that have port port_id of component h as an end
PipesOn(ps, h, port_id) == {n \in DOMAIN ps : <<h, port_id>> \in EndPorts(ps[n])}

\* every port is an end of at most one registered pipe, and it is marked
\* connected (to that pipe) exactly when there is one
LinksConsistent ==
    \A h \in DOMAIN objs : \A i \in 1..Len(objs[h].ports) :
        LET port == objs[h].ports[i]
            on == PipesOn(pipes, h, port.port_id)
        IN  /\ Cardinality(on) <= 1
            /\ port.is_connected <=> on # {}
            /\ port.is_connected => on = {port.connected_pipe}

\* the step registers a pipe: it connects two ports of two different
\* components, both of which were unconnected and on no registered pipe
NewPipeIsAllowed ==
    \A n \in DOMAIN pipes' \ DOMAIN pipes :
        LET pipe == pipes'[n]
            sp == get_port_by_id(objs[pipe.start_component], pipe.start_port)
            ep == get_port_by_id(objs[pipe.end_component], pipe.end_port)
        IN  /\ pipe.start_component # pipe.end_component
            /\ Cardinality(EndPorts(pipe)) = 2
            /\ sp # 0 /\ ep # 0
            /\ ~objs[pipe.start_component].ports[sp].is_connected
            /\ ~objs[pipe.end_component].ports[ep].is_connected
            /\ PipesOn(pipes, pipe.start_component, pipe.start_port) = {}
            /\ PipesOn(pipes, pipe.end_component, pipe.end_port) = {}

\* C29: every pipe the interactive construction registers connects two
\* distinct ports of two different components that were both unconnected
\* before; so, through any sequence of constructions and pipe removals,
\* each port is an end of at most one registered pipe and is marked
\* connected exactly when a registered pipe has it as an end.
C29_OnePipePerPort ==
    /\ []LinksConsistent
    /\ [][NewPipeIsAllowed]_vars

\* two pipes were drawn between two pumps and the first one was removed:
\* the second is the only registered pipe, its two ports are the connected
\* ones and the two ports of the removed pipe are free again
C29_Witness ==
    /\ lastCall.op = "remove_pipe" /\ lastCall.ret
    /\ pipe_counter = 2
    /\ DOMAIN pipes = {2}
    /\ Len(objs) = 2
    /\ \A h \in {1, 2} :
           /\ Len(objs[h].ports) = 2
           /\ \E i, j \in {1, 2} :
                  /\ objs[h].ports[i].is_connected
                  /\ objs[h].ports[i].connected_pipe = 2
                  /\ ~objs[h].ports[j].is_connected

\* ------------------------------------------------------------------
\* Connection mode and the construction in progress: the mode is toggled
\* and switched off, ports and empty space are clicked,
\* start_pipe_construction is called whether or not a construction is in
\* progress, and the connections are cleared (SpecMode)
\* ------------------------------------------------------------------
\* ConnectionController.toggle_mode(False)
ToggleModeOff ==
    /\ toggle_mode(<<FALSE>>)
    /\ UNCHANGED <<compVars, scaleVars, transformation_history>>
    /\ UNCHANGED route

\* the call of start_pipe_construction that on_port_clicked makes for a
\* free port in connection mode, made here with or without a construction
\* in progress
StartPipeConstruction ==
    /\ connection_mode
    /\ \E hp \in ReachablePorts :
           /\ ~objs[hp[1]].ports[hp[2]].is_connected
           /\ ApplyFinish(start_pipe_construction(objs, hp[1], objs[hp[1]].ports[hp[2]].port_id))
           /\ lastCall' = [op |-> "start_pipe_construction", ret |-> << >>,
                           signal |-> "pipe_construction_started",
                           component |-> hp[1],
                           port_id |-> objs[hp[1]].ports[hp[2]].port_id,
                           cancelled |-> pipe_builder # << >>]
    /\ UNCHANGED <<connection_mode, compVars, scaleVars, transformation_history>>
    /\ UNCHANGED route

ClearAllConnections ==
    /\ connection_clear_all
    /\ UNCHANGED <<compVars, scaleVars, transformation_history>>
    /\ UNCHANGED route

NextMode ==
    \/ AddObject
    \/ ToggleMode
    \/ ToggleModeOff
    \/ MouseClick
    \/ PortClicked
    \/ StartPipeConstruction
    \/ ClearAllConnections

SpecMode == Init /\ [][NextMode]_vars

\* what a step does to the construction in progress
ModeStep ==
    \* outside connection mode nothing starts a construction
    /\ ~connection_mode => pipe_builder' = << >>
    \* the end of connection mode leaves no builder and no preview path
    /\ (connection_mode /\ ~connection_mode') => pipe_builder' = << >>
    /\ (lastCall' # lastCall /\ lastCall'.op = "connection_clear_all") =>
           /\ pipe_builder' = << >>
           /\ ~connection_mode'
    \* a construction started over another one replaces it
    /\ (lastCall' # lastCall /\ lastCall'.op = "start_pipe_construction") =>
           pipe_builder' = <<[start_component |-> lastCall'.component,
                              start_port_id |-> lastCall'.port_id,
                              waypoints |-> << >>]>>

\* C30: a construction is in progress only in connection mode, and one at
\* most: a port click outside connection mode starts nothing, a
\* construction started while another is in progress takes its place (the
\* earlier one is cancelled), and the end of connection mode, by
\* toggle_mode(False) or clear_all, leaves no builder and no preview path.
C30_OneConstructionInConnectionMode ==
    /\ [](pipe_builder # << >> => connection_mode)
    /\ [](Len(pipe_builder) <= 1)
    /\ [][ModeStep]_vars

\* a construction was in progress in connection mode when another one was
\* started: the new one is the only one, from the port asked for and
\* without waypoints
C30_Witness ==
    /\ lastCall.op = "start_pipe_construction"
    /\ lastCall.cancelled
    /\ connection_mode
    /\ Len(pipe_builder) = 1
    /\ pipe_builder[1].start_component = lastCall.component
    /\ pipe_builder[1].start_port_id = lastCall.port_id
    /\ pipe_builder[1].waypoints = << >>

\* ------------------------------------------------------------------
\* A pipe whose port ids may name no port of its components: the pipe of
\* PipeScene is given port ids and asked to recompute, and its components
\* are dragged (SpecRecompute)
\* ------------------------------------------------------------------
\* port ids given to a pipe end: the two ports of a pump and an id no
\* pump has
PortIdInputs == {"1", "2", "3"}

\* OrthogonalPipe.update_path() on a pipe whose start_port and end_port
\* are sp and ep
UpdateOrthogonalPath ==
    /\ \E n \in DOMAIN pipes, sp \in PortIdInputs, ep \in PortIdInputs :
           LET pipe == [pipes[n] EXCEPT !.start_port = sp, !.end_port = ep]
               after == update_orthogonal_path(pipe, objs)
           IN  /\ pipes' = [pipes EXCEPT ![n] = after]
               /\ lastCall' = [op |-> "update_orthogonal_path", pipe |-> pipe, ret |-> after,
                               signal |-> update_orthogonal_path_message(pipe, objs)]
    /\ UNCHANGED <<objs, compVars, scaleVars, connVars, transformation_history>>
    /\ UNCHANGED route

NextRecompute ==
    \/ DragObject
    \/ RotateOneRight90
    \/ UpdateOrthogonalPath

SpecRecompute == InitPipes /\ [][NextRecompute]_vars

\* one of the two port ids of the pipe names no port of its component
Unresolved(pipe, os) ==
    \/ \A i \in 1..Len(os[pipe.start_component].ports) :
           os[pipe.start_component].ports[i].port_id # pipe.start_port
    \/ \A i \in 1..Len(os[pipe.end_component].ports) :
           os[pipe.end_component].ports[i].port_id # pipe.end_port

\* C27: a recompute of a pipe whose start or end port id names no port of
\* the component it refers to reports the error, raises nothing, and
\* leaves the path and the length of the pipe as they were, whether the
\* recompute was asked for directly or by a move of a component.
C27_UnresolvedPortKeepsPath ==
    [][/\ \A n \in DOMAIN pipes :
              Unresolved(pipes'[n], objs') =>
                  /\ pipes'[n].path = pipes[n].path
                  /\ pipes'[n].length = pipes[n].length
       /\ (lastCall' # lastCall /\ lastCall'.op = "update_orthogonal_path"
              /\ Unresolved(lastCall'.pipe, objs)) =>
              /\ lastCall'.signal = "Erreur: ports non trouves"
              /\ lastCall'.ret.path = lastCall'.pipe.path
              /\ lastCall'.ret.length = lastCall'.pipe.length]_vars

\* the pipe was asked to recompute with a start port id that names no
\* port, and the component it starts at was dragged away afterwards: the
\* path, three legs long, still starts where the port stood before
C27_Witness ==
    /\ lastCall.op = "update_orthogonal_path"
    /\ lastCall.signal = "Erreur: ports non trouves"
    /\ 1 \in DOMAIN pipes
    /\ pipes[1].start_port = "3"
    /\ objs[1].pos \in DragInputs
    /\ Len(pipes[1].path) = 7
    /\ pipes[1].length > 0
    /\ pipes[1].path[1] # objs[1].ports[2].pos
    /\ pipes[1].path[1] = PAdd(first_position, objs[1].ports[2].initial_position)

\* ------------------------------------------------------------------
\* Pipes drawn between components and recomputed when a component is
\* dragged to a position off the pixel grid (SpecLength): the moved ports
\* stand on an odd tenth of a pixel
\* ------------------------------------------------------------------
\* a position a drag ends at under a zoomed view: (100.5, 220)
OffGridInputs == {Pt(Px(100) + 5, Px(220))}

DragOffGrid ==
    /\ \E h \in DOMAIN objs, p \in OffGridInputs : drag_object(h, p)
    /\ UNCHANGED <<compVars, scaleVars, connVars, transformation_history>>
    /\ UNCHANGED route

NextLength ==
    \/ AddObject
    \/ ToggleMode
    \/ MouseClick
    \/ PortClicked
    \/ DragOffGrid

SpecLength == Init /\ [][NextLength]_vars

\* the sum of |dx| + |dy| between the points of a list that are `step`
\* apart, from index i on: step 1 runs over the segments of a path, step 2
\* over its legs (start, leg ends)
RECURSIVE Manhattan(_, _, _)
Manhattan(points, i, step) ==
    IF i + step > Len(points) THEN 0
    ELSE Abs(X(points[i + step]) - X(points[i])) + Abs(Y(points[i + step]) - Y(points[i]))
         + Manhattan(points, i + step, step)

\* C26: the length stored on a pipe is half the sum of the distances
\* between consecutive points of its path, rounded to one decimal (lengths
\* are held in tenths, so twice the length is within one tenth of the sum);
\* every segment lies on one axis, its distance is |dx| + |dy|, and the sum
\* is the sum over the legs of |dx| + |dy|, whichever corner a leg takes.
C26_LengthIsHalfTheLegSum ==
    \A n \in DOMAIN pipes :
        LET path == pipes[n].path
        IN  path # << >> =>
                /\ \A i \in 1..(Len(path) - 1) :
                       X(path[i + 1]) = X(path[i]) \/ Y(path[i + 1]) = Y(path[i])
                /\ Abs(2 * pipes[n].length - Manhattan(path, 1, 1)) <= 1
                /\ Manhattan(path, 1, 1) = Manhattan(path, 1, 2)

\* a pipe with a waypoint has been computed whose legs sum to an odd number
\* of tenths of a pixel: half of it has been rounded to a tenth of a
\* millimetre
C26_Witness ==
    \E n \in DOMAIN pipes :
        /\ Len(pipes[n].path) >= 5
        /\ pipes[n].length > 0
        /\ Manhattan(pipes[n].path, 1, 2) % 2 = 1
        /\ 2 * pipes[n].length # Manhattan(pipes[n].path, 1, 1)

\* the pipes of the registry that start or end at object h
PipesAt(h) ==
    {n \in DOMAIN pipes : pipes[n].start_component = h \/ pipes[n].end_component = h}

\* C9: once remove_object has returned True for a component, no pipe that
\* starts or ends at that component is left in the registry, and no port
\* of a component still in the scene is marked connected to such a pipe.
C9_RemovedObjectRetiresPipes ==
    (lastCall.op = "remove_object" /\ lastCall.ret = TRUE) =>
        \A h \in DOMAIN objs :
            objs[h].component_id = lastCall.id =>
                /\ PipesAt(h) = {}
                /\ \A g \in get_all_hydraulic_objects(objs) :
                       \A i \in 1..Len(objs[g].ports) :
                           objs[g].ports[i].is_connected =>
                               objs[g].ports[i].connected_pipe \notin PipesAt(h)

\* ------------------------------------------------------------------
\* Routing as a function: calculate_orthogonal_path applied to points of a
\* small grid, so that points share an x or a y, or coincide
\* ------------------------------------------------------------------
PathCoords == {0, Px(50), Px(120)}

PathPoints == PathCoords \X PathCoords

\* the waypoint lists of at most n points
RECURSIVE WaypointLists(_)
WaypointLists(n) ==
    IF n = 0 THEN {<< >>}
    ELSE WaypointLists(n - 1)
         \cup {Append(ws, p) : ws \in {l \in WaypointLists(n - 1) : Len(l) = n - 1},
                               p \in PathPoints}

InitPath ==
    /\ objs = << >>
    /\ objects = << >>
    /\ objects_by_type = << >>
    /\ type_counters = << >>
    /\ next_position = first_position
    /\ current_row_count = 0
    /\ GLOBAL_SCALE = ScaleDen
    /\ objects_scale = ScaleDen
    /\ connection_mode = FALSE
    /\ pipe_builder = << >>
    /\ hovering_port = << >>
    /\ pipes = << >>
    /\ pipe_counter = 0
    /\ transformation_history = << >>
    /\ lastCall = [op |-> "__init__", ret |-> TRUE]
    /\ route \in [start : PathPoints, end : PathPoints,
                  waypoints : WaypointLists(MaxWaypoints), points : {<< >>}]

CalculatePath ==
    /\ route.points = << >>
    /\ route' = [route EXCEPT !.points =
                    calculate_orthogonal_path(route.start, route.end, route.waypoints)]
    /\ UNCHANGED <<objs, pipes, compVars, scaleVars, connVars, transformation_history, lastCall>>

NextPath == CalculatePath

SpecPath == InitPath /\ [][NextPath]_vars

\* the number of axes in which two points differ
AxesChanged(p, q) == (IF X(p) # X(q) THEN 1 ELSE 0) + (IF Y(p) # Y(q) THEN 1 ELSE 0)

\* C3: in every path calculate_orthogonal_path returns, with or without
\* waypoints and also when points share an x or a y, each two consecutive
\* points differ in exactly one axis: no diagonal segment and no segment
\* of two equal points.
C3_EveryLegOnOneAxis ==
    \A i \in 1..(Len(route.points) - 1) :
        AxesChanged(route.points[i], route.points[i + 1]) = 1

\* the points the route has to visit: the start, the waypoints in the order
\* given, the end
Stops == <<route.start>> \o route.waypoints \o <<route.end>>

\* the corner of the leg from a to b
Corner(a, b) ==
    IF Abs(X(b) - X(a)) >= Abs(Y(b) - Y(a)) THEN Pt(X(b), Y(a)) ELSE Pt(X(a), Y(b))

\* C25: the path is the start followed, for each leg in waypoint order, by
\* the leg's corner and the leg's end; the corner is (end.x, start.y) when
\* |dx| >= |dy| and (start.x, end.y) otherwise. So every waypoint is on the
\* path, in the order given, and no leg's start is written twice.
C25_CornerByLargerDisplacement ==
    route.points # << >> =>
        /\ Len(route.points) = 2 * (Len(Stops) - 1) + 1
        /\ route.points[1] = route.start
        /\ \A k \in 1..(Len(Stops) - 1) :
               /\ route.points[2 * k] = Corner(Stops[k], Stops[k + 1])
               /\ route.points[2 * k + 1] = Stops[k + 1]

\* a path of three legs has been computed: the first leg has equal
\* displacements on both axes and turns at (end.x, start.y), the second is
\* longer on the vertical axis and turns at (start.x, end.y)
C25_Witness ==
    /\ Len(route.waypoints) = 2
    /\ Len(route.points) = 7
    /\ LET a == route.start
           b == route.waypoints[1]
           c == route.waypoints[2]
       IN  /\ X(b) # X(a)
           /\ Abs(X(b) - X(a)) = Abs(Y(b) - Y(a))
           /\ route.points[2] = Pt(X(b), Y(a))
           /\ X(c) # X(b)
           /\ Abs(X(c) - X(b)) < Abs(Y(c) - Y(b))
           /\ route.points[4] = Pt(X(b), Y(c))
           /\ route.points[5] = c

\* ------------------------------------------------------------------
\* Alignment of lists of up to three components: pumps dropped at given
\* positions, then aligned (and rotated to the left) as lists in any order
\* ------------------------------------------------------------------

\* drop positions, no two on the same horizontal or vertical line
AlignPositions == {Pt(Px(60), Px(40)), Pt(Px(180), Px(160)), Pt(Px(300), Px(280))}

AddObjectAt ==
    /\ Len(objs) < MaxAlignObjects
    /\ \E position \in AlignPositions : add_object("PUMP", << >>, <<position>>)
    /\ UNCHANGED <<scaleVars, connVars, transformation_history>>
    /\ UNCHANGED route

NextAlign ==
    \/ AddObjectAt
    \/ AlignHorizontal
    \/ AlignVertical
    \/ RotateLeft90

SpecAlign == Init /\ [][NextAlign]_vars

\* a list in reverse order
Reversed(q) == [i \in 1..Len(q) |-> q[Len(q) + 1 - i]]

\* the position an alignment must give object h: the reference's
\* coordinate on the aligned axis, its own on the other
AlignedTo(h, reference, alignment_type) ==
    IF alignment_type = "horizontal"
    THEN Pt(X(objs[h].pos), Y(objs[reference].pos))
    ELSE Pt(X(objs[reference].pos), Y(objs[h].pos))

\* C8: an alignment takes its reference from the last component of the
\* list: aligning a list horizontally gives every listed component the Y
\* of the last one and leaves every X, the last component and the
\* components outside the list as they are; the same list in reverse order
\* is aligned on its first component; a vertical alignment does the same
\* with X and Y exchanged.
C8_AlignOnLastOfList ==
    \A selected \in HydraulicSelections : \A alignment_type \in {"horizontal", "vertical"} :
        Len(selected) >= 2 =>
            LET last == selected[Len(selected)]
                first == selected[1]
                w2 == AlignScene(World, selected, alignment_type)
                w3 == AlignScene(World, Reversed(selected), alignment_type)
                listed == {selected[i] : i \in 1..Len(selected)}
            IN  /\ \A h \in listed :
                       /\ w2.objs[h].pos = AlignedTo(h, last, alignment_type)
                       /\ w3.objs[h].pos = AlignedTo(h, first, alignment_type)
                /\ w2.objs[last].pos = objs[last].pos
                /\ w3.objs[first].pos = objs[first].pos
                /\ \A h \in DOMAIN objs \ listed :
                       w2.objs[h].pos = objs[h].pos /\ w3.objs[h].pos = objs[h].pos

\* three components dropped on three different lines have been aligned
\* horizontally as the list [third, second, first]: all are on the first
\* one's line, each still in its own column
C8_Witness ==
    /\ Len(objs) = 3
    /\ Len(transformation_history) = 1
    /\ transformation_history[1].operation = "alignment"
    /\ transformation_history[1].parameters.type = "horizontal"
    /\ transformation_history[1].objects = <<objs[3].component_id, objs[2].component_id, objs[1].component_id>>
    /\ objs[1].pos = Pt(Px(60), Px(40))
    /\ objs[2].pos = Pt(Px(180), Px(40))
    /\ objs[3].pos = Pt(Px(300), Px(40))

\* ------------------------------------------------------------------
\* A history that fills up: two pumps, and more successful transformations
\* than the history holds.  The first VariedOps requests and the requests
\* made once max_history entries have been recorded are rotations,
\* alignments or flips; the requests in between are flips.
\* ------------------------------------------------------------------
AddPump ==
    /\ Len(objs) < MaxObjects
    /\ add_object("PUMP", << >>, << >>)
    /\ UNCHANGED <<scaleVars, connVars, transformation_history>>
    /\ UNCHANGED route

TimeOpen == LatestTime(transformation_history) < MaxHistoryOps

AnyKind ==
    \/ LatestTime(transformation_history) < VariedOps
    \/ LatestTime(transformation_history) >= max_history

FlipFirst ==
    /\ TimeOpen
    /\ 1 \in DOMAIN objs
    /\ flip_objects(<<1>>, "horizontal")
    /\ UNCHANGED <<compVars, scaleVars, connVars>>
    /\ UNCHANGED route

RotateFirst ==
    /\ TimeOpen /\ AnyKind
    /\ 1 \in DOMAIN objs
    /\ rotate_objects(<<1>>, 90)
    /\ UNCHANGED <<compVars, scaleVars, connVars>>
    /\ UNCHANGED route

AlignPair ==
    /\ TimeOpen /\ AnyKind
    /\ Len(objs) = 2
    /\ _align_objects(<<1, 2>>, "horizontal")
    /\ UNCHANGED <<compVars, scaleVars, connVars>>
    /\ UNCHANGED route

NextHistory ==
    \/ AddPump
    \/ FlipFirst
    \/ RotateFirst
    \/ AlignPair

SpecHistory == Init /\ [][NextHistory]_vars

\* a step in which a rotation, an alignment or a flip succeeds
TransformSucceeds ==
    /\ \E selected \in Selections :
           \/ rotate_objects(selected, 90)
           \/ flip_objects(selected, "horizontal")
           \/ _align_objects(selected, "horizontal")
    /\ lastCall'.ret = TRUE

\* the history after the step is the one before it with one new entry at
\* the end, less its oldest entry when it was full
OneEntryAppended ==
    LET newest == transformation_history'[Len(transformation_history')]
    IN  /\ transformation_history' # << >>
        /\ newest.timestamp > LatestTime(transformation_history)
        /\ transformation_history' =
               IF Len(transformation_history) < max_history
               THEN Append(transformation_history, newest)
               ELSE Append(Tail(transformation_history), newest)

PropertyValues ==
    [flow_rate |-> {0, 10000}, pressure_head |-> {501}, speed |-> {3000}]

\* the batches: a value for each property of a subset of the properties
PropertyBatches ==
    UNION {[names -> UNION {PropertyValues[k] : k \in names}] : names \in SUBSET DOMAIN PropertyValues}

BatchInputs ==
    {batch \in PropertyBatches : \A k \in DOMAIN batch : batch[k] \in PropertyValues[k]}

AddWithProperties ==
    /\ Len(objs) < MaxObjects
    /\ \E object_type \in {"PUMP", "RESERVOIR"}, batch \in BatchInputs :
           add_object(object_type, batch, << >>)
    /\ UNCHANGED <<scaleVars, connVars, transformation_history>>
    /\ UNCHANGED route

UpdateProperties ==
    /\ \E object_id \in RemoveInputs, batch \in BatchInputs :
           update_object_properties(object_id, batch)
    /\ UNCHANGED <<pipes, compVars, scaleVars, connVars, transformation_history>>
    /\ UNCHANGED route

NextProperties ==
    \/ AddWithProperties
    \/ UpdateProperties

SpecProperties == Init /\ [][NextProperties]_vars

\* the properties of a batch whose value is outside the limits declared
\* for the type
OutOfRange(object_type, batch) ==
    {k \in DOMAIN batch :
        /\ k \in DOMAIN property_constraints(object_type)
        /\ \/ batch[k] < property_constraints(object_type)[k][1]
           \/ batch[k] > property_constraints(object_type)[k][2]}

\* the properties after are the properties before with the batch applied,
\* less its out-of-range properties, which keep the value they had
AppliedButOutOfRange(object_type, before, batch, after) ==
    LET out == OutOfRange(object_type, batch)
    IN  /\ DOMAIN after = (DOMAIN before) \cup ((DOMAIN batch) \ out)
        /\ \A k \in (DOMAIN batch) \ out : after[k] = batch[k]
        /\ \A k \in (DOMAIN before) \ ((DOMAIN batch) \ out) : after[k] = before[k]

\* C16: a batch of properties is validated property by property: each
\* property whose value is outside its declared [min, max] is refused,
\* keeps the value it had (the default, at creation) and is reported
\* through property_validation_failed, and every other property of the
\* batch is applied; this holds for update_object_properties and for the
\* custom properties of add_object.
C16_BatchValidatedPerProperty ==
    [][\A batch \in BatchInputs :
          /\ \A object_id \in DOMAIN objects :
                 (lastCall'.op = "update_object_properties"
                     /\ update_object_properties(object_id, batch)) =>
                     LET h == objects[object_id]
                     IN  /\ AppliedButOutOfRange(objs[h].object_type, objs[h].properties,
                                                 batch, objs'[h].properties)
                         /\ lastCall'.rejected = OutOfRange(objs[h].object_type, batch)
          /\ \A object_type \in {"PUMP", "RESERVOIR"} :
                 (lastCall'.op = "add_object" /\ add_object(object_type, batch, << >>)) =>
                     /\ Len(objs') = Len(objs) + 1
                     /\ AppliedButOutOfRange(object_type, get_default_properties(object_type),
                                             batch, objs'[Len(objs')].properties)
                     /\ lastCall'.rejected = OutOfRange(object_type, batch)]_vars

\* a batch update has just refused a property and applied another: the
\* pump's flow_rate is a value it was given earlier, its speed is new,
\* and its pressure_head, refused, is the default
C16_Witness ==
    /\ lastCall.op = "update_object_properties"
    /\ lastCall.ret = TRUE
    /\ lastCall.rejected = {"pressure_head"}
    /\ \E h \in DOMAIN objs :
           /\ objs[h].object_type = "PUMP"
           /\ objs[h].properties.flow_rate = 10000
           /\ objs[h].properties.speed = 3000
           /\ objs[h].properties.pressure_head = 50


\* ------------------------------------------------------------------
\* Scale and orientation of the ports together (checked on Spec)
\* ------------------------------------------------------------------
\* C22: every port's relative position is the template position times the
\* effective scale, carried through the rotations and mirrors applied so
\* far. It is so for a new component, and it stays so when each step keeps
\* it: a rotation turns the relative positions by its angle, a flip mirrors
\* them, and a scale change multiplies them by the ratio of the scales,
\* leaving their orientation as it is.
C22_ScaleKeepsOrientation ==
    [][\A h \in DOMAIN objs :
          LET o == objs[h]
              o2 == objs'[h]
              turn == o2.rotation - o.rotation
          IN  \A i \in 1..Len(o.ports) :
                  LET rel == o.ports[i].initial_position
                      rel2 == o2.ports[i].initial_position
                  IN  /\ turn # 0 =>
                             rel2 = Pt(X(rel) * Cos(turn) - Y(rel) * Sin(turn),
                                       X(rel) * Sin(turn) + Y(rel) * Cos(turn))
                      /\ o2.transform # o.transform =>
                             rel2 = Pt(X(rel) * o2.transform[1] * o.transform[1],
                                       Y(rel) * o2.transform[2] * o.transform[2])
                      /\ o2.current_scale # o.current_scale =>
                             /\ X(rel2) * o.current_scale = X(rel) * o2.current_scale
                             /\ Y(rel2) * o.current_scale = Y(rel) * o2.current_scale]_vars

\* the step is a flip that was carried out: it reported objects_flipped and
\* appended its entry to the history
FlipStep ==
    /\ lastCall'.op = "flip_objects"
    /\ lastCall'.ret
    /\ Len(transformation_history') = Len(transformation_history) + 1

\* the entry the step appended
FlipEntry == transformation_history'[Len(transformation_history')]

\* the port after the flip of its component: one relative coordinate has
\* changed sign, the other is kept, and the port stands at the component's
\* position plus the new relative position
Mirrored(port, port2, pos, flip_type) ==
    LET rel == port.initial_position
        rel2 == port2.initial_position
    IN  /\ flip_type = "horizontal" => X(rel2) = -X(rel) /\ Y(rel2) = Y(rel)
        /\ flip_type = "vertical" => X(rel2) = X(rel) /\ Y(rel2) = -Y(rel)
        /\ port2.pos = PAdd(pos, rel2)
        /\ port2 = [port EXCEPT !.initial_position = rel2, !.pos = port2.pos]

\* C24: a flip negates one relative coordinate of every port of every
\* selected component (X for a horizontal flip, Y for a vertical one) and
\* keeps the other; the selected components keep their scene position and
\* rotation, and the components outside the selection keep their position
\* and their ports.
C24_FlipChangesOnlyPortSigns ==
    [][FlipStep =>
          LET flip_type == FlipEntry.parameters.type
          IN  \A h \in DOMAIN objs :
                  IF \E i \in 1..Len(FlipEntry.objects) :
                         FlipEntry.objects[i] = objs[h].component_id
                  THEN /\ objs'[h].pos = objs[h].pos
                       /\ objs'[h].rotation = objs[h].rotation
                       /\ objs'[h].current_scale = objs[h].current_scale
                       /\ Len(objs'[h].ports) = Len(objs[h].ports)
                       /\ \A i \in 1..Len(objs[h].ports) :
                              Mirrored(objs[h].ports[i], objs'[h].ports[i],
                                       objs[h].pos, flip_type)
                  ELSE objs'[h] = objs[h]]_vars

\* a horizontal flip of one of two components has been carried out: the
\* flipped one has a port left of its origin, at the same height as in the
\* template, and the other component stands with its template layout
C24_Witness ==
    /\ Len(transformation_history) = 1
    /\ transformation_history[1].operation = "flip_horizontal"
    /\ Len(transformation_history[1].objects) = 1
    /\ \E h, k \in get_all_hydraulic_objects(objs) :
           /\ h # k
           /\ transformation_history[1].objects[1] = objs[h].component_id
           /\ objs[h].transform = <<-1, 1>>
           /\ objs[k].transform = <<1, 1>>
           /\ \E i \in 1..Len(objs[h].ports) :
                  /\ X(objs[h].ports[i].initial_position) < 0
                  /\ Y(objs[h].ports[i].initial_position) > 0
           /\ \A i \in 1..Len(objs[k].ports) :
                  X(objs[k].ports[i].initial_position) > 0

\* the step is a rotation that was carried out: it reported objects_rotated
\* and appended its entry to the history
RotationStep ==
    /\ lastCall'.op = "rotate_objects"
    /\ lastCall'.ret
    /\ Len(transformation_history') = Len(transformation_history) + 1

\* the entry the step appended
RotationEntry == transformation_history'[Len(transformation_history')]

\* the components the rotation was applied to
Rotated == {h \in DOMAIN objs :
               \E i \in 1..Len(RotationEntry.objects) :
                   RotationEntry.objects[i] = objs[h].component_id}

\* the sum of coordinate k of the positions of a set of components
RECURSIVE SumOver(_, _, _)
SumOver(os, hs, k) ==
    IF hs = {} THEN 0
    ELSE LET h == CHOOSE g \in hs : TRUE
         IN  os[h].pos[k] + SumOver(os, hs \ {h}, k)

\* C28: a rotation turns the selected group about the mean of the
\* positions the selected components had before the call (written here
\* times the number n of components, the mean being sum / n): every
\* component goes to centroid + R(angle)(position - centroid), its
\* rotation grows by the angle, every port's relative position (x, y)
\* becomes R(angle)(x, y), turned once, the port standing at the new
\* position plus it; and the mean of the positions is the same afterwards.
C28_RotationAboutCentroid ==
    [][RotationStep =>
          LET angle == RotationEntry.parameters.angle
              n == Cardinality(Rotated)
              sx == SumOver(objs, Rotated, 1)
              sy == SumOver(objs, Rotated, 2)
          IN  /\ n = Len(RotationEntry.objects)
              /\ RotationEntry.parameters.center = Pt(sx \div n, sy \div n)
              /\ SumOver(objs', Rotated, 1) = sx
              /\ SumOver(objs', Rotated, 2) = sy
              /\ \A h \in Rotated :
                     LET o == objs[h]
                         o2 == objs'[h]
                         ndx == n * X(o.pos) - sx
                         ndy == n * Y(o.pos) - sy
                     IN  /\ n * X(o2.pos) = sx + ndx * Cos(angle) - ndy * Sin(angle)
                         /\ n * Y(o2.pos) = sy + ndx * Sin(angle) + ndy * Cos(angle)
                         /\ o2.rotation = o.rotation + angle
                         /\ \A i \in 1..Len(o.ports) :
                                LET rel == o.ports[i].initial_position
                                    rel2 == o2.ports[i].initial_position
                                IN  /\ X(rel2) = X(rel) * Cos(angle) - Y(rel) * Sin(angle)
                                    /\ Y(rel2) = X(rel) * Sin(angle) + Y(rel) * Cos(angle)
                                    /\ o2.ports[i].pos = PAdd(o2.pos, rel2)]_vars

\* two components next to each other have been turned together by 90
\* degrees: they stand one above the other, off their former places, and
\* the first port of one of them has gone from below right of its origin
\* to below left of it
C28_Witness ==
    /\ Len(transformation_history) = 1
    /\ transformation_history[1].operation = "rotation"
    /\ transformation_history[1].parameters.angle = 90
    /\ Len(transformation_history[1].objects) = 2
    /\ Len(objs) = 2
    /\ objs[1].rotation = 90 /\ objs[2].rotation = 90
    /\ X(objs[1].pos) = X(objs[2].pos)
    /\ Y(objs[1].pos) # Y(objs[2].pos)
    /\ transformation_history[1].parameters.center =
           Pt(X(objs[1].pos), (Y(objs[1].pos) + Y(objs[2].pos)) \div 2)
    /\ \E h \in 1..2 :
           /\ X(objs[h].ports[1].initial_position) < 0
           /\ Y(objs[h].ports[1].initial_position) > 0

\* ------------------------------------------------------------------
\* The scale given to one component and the scale of the scene: components
\* are added, update_scale(m) is called on one of them, and the scale of
\* the scene is changed (SpecScale).
\* ------------------------------------------------------------------
NextScale ==
    \/ AddObject
    \/ DragObject
    \/ UpdateScale
    \/ SetObjectsScale

SpecScale == Init /\ [][NextScale]_vars

\* the component holds a multiplier of its own: its effective scale is not
\* its native scale times the scale of the scene
HasOwnMultiplier(o) == o.current_scale # o.base_svg_scale * GLOBAL_SCALE

\* C23: the effective scale of a component is its type's native scale times
\* one multiplier, its own when it was given one and the global scale
\* otherwise; a change of the global scale changes the effective scale of
\* the components without a multiplier of their own, and of no other.
C23_GlobalScaleSparesOwnMultiplier ==
    [][GLOBAL_SCALE' # GLOBAL_SCALE =>
          \A h \in get_all_hydraulic_objects(objs) :
              /\ objs'[h].base_svg_scale = svg_scale(objs[h].object_type)
              /\ IF HasOwnMultiplier(objs[h])
                 THEN objs'[h].current_scale = objs[h].current_scale
                 ELSE objs'[h].current_scale = objs[h].base_svg_scale * GLOBAL_SCALE']_vars

\* ------------------------------------------------------------------
\* The registry of components: add_object, remove_object, clear_all and
\* import_objects_data of what export_objects_data has just returned
\* (a scene saved and loaded again).
\* ------------------------------------------------------------------
AddComponent ==
    /\ Len(objs) < MaxRegistryObjects
    /\ \E object_type \in {"PUMP", "RESERVOIR"} : add_object(object_type, << >>, << >>)
    /\ UNCHANGED <<scaleVars, connVars, transformation_history>>
    /\ UNCHANGED route

ClearAll ==
    /\ clear_all
    /\ UNCHANGED <<scaleVars, connVars, transformation_history>>
    /\ UNCHANGED route

ImportExported ==
    /\ Len(objs) + Cardinality(DOMAIN objects) <= MaxRegistryObjects
    /\ import_objects_data(export_objects_data(objs, objects))
    /\ UNCHANGED <<scaleVars, connVars, transformation_history>>
    /\ UNCHANGED route

NextRegistry ==
    \/ AddComponent
    \/ RemoveObject
    \/ ClearAll
    \/ ImportExported

SpecRegistry == Init /\ [][NextRegistry]_vars

\* C17: no two components of the scene have the same component_id, and the
\* object registry holds exactly one entry for each component of the scene
C17_ComponentIdsUnique ==
    LET live == get_all_hydraulic_objects(objs)
    IN  /\ \A h1, h2 \in live : objs[h1].component_id = objs[h2].component_id => h1 = h2
        /\ DOMAIN objects = {objs[h].component_id : h \in live}
        /\ \A k \in DOMAIN objects :
               objects[k] \in live /\ objs[objects[k]].component_id = k


\* ------------------------------------------------------------------
\* The parser of the drawings: calls of its functions on given arguments;
\* lastCall holds the arguments and the value returned.
\* ------------------------------------------------------------------
\* the conversion checked in the parser's __main__: viewBox
\* (0, 0, 7.9375, 7.9375), target 30 x 30, circle (3.96875, 0.52916664)
ExampleConversion ==
    [den |-> 100000000, svg_pos |-> <<396875000, 52916664>>,
     svg_viewbox |-> <<0, 0, 793750000, 793750000>>, target_size |-> <<3000, 3000>>]

\* Port1 of the pump's drawing: viewBox "0 0 7.9374998 7.9375", width and
\* height 30, circle (3.96875, 7.4083333)
PumpConversion ==
    [den |-> 100000000, svg_pos |-> <<396875000, 740833330>>,
     svg_viewbox |-> <<0, 0, 793749980, 793750000>>, target_size |-> <<3000, 3000>>]

\* coordinates of circles, in thousandths: 0, 4, 5, 5.125, 15 and 25.01
SvgCoords == {0, 4000, 5000, 5125, 15000, 25010}

\* conversions in thousandths of a drawing unit: viewBox of origin (0,0)
\* or (5,5) and of size 30 or 7, target of 30 or 60 pixels
SmallConversions ==
    {[den |-> 1000, svg_pos |-> <<x, y>>, svg_viewbox |-> <<o, o, w, w>>,
      target_size |-> <<t, t>>] :
        x \in SvgCoords, y \in SvgCoords, o \in {0, 5000}, w \in {30000, 7000},
        t \in {3000, 6000}}

ConversionInputs == {ExampleConversion, PumpConversion} \cup SmallConversions

ConvertCoordinates ==
    /\ \E c \in ConversionInputs :
         \E ret \in _convert_svg_to_qt_coordinates(c.svg_pos, c.svg_viewbox, c.target_size) :
            lastCall' = [op |-> "_convert_svg_to_qt_coordinates", args |-> c, ret |-> ret]
    /\ UNCHANGED <<objs, pipes, compVars, scaleVars, connVars, transformation_history>>
    /\ UNCHANGED route

\* identifiers of circles that _is_port_id accepts: Port1, Port2, Port12,
\* port_x, port_inlet, Port_Outlet, port_drain, port_out3, Port_both
CircleIds ==
    {<<"P", "o", "r", "t", "1">>,
     <<"P", "o", "r", "t", "2">>,
     <<"P", "o", "r", "t", "1", "2">>,
     <<"p", "o", "r", "t", "_", "x">>,
     <<"p", "o", "r", "t", "_", "i", "n", "l", "e", "t">>,
     <<"P", "o", "r", "t", "_", "O", "u", "t", "l", "e", "t">>,
     <<"p", "o", "r", "t", "_", "d", "r", "a", "i", "n">>,
     <<"p", "o", "r", "t", "_", "o", "u", "t", "3">>,
     <<"P", "o", "r", "t", "_", "b", "o", "t", "h">>}

\* values of data-type: absent, output, INPUT, bidirectional, drain
DataTypes ==
    {<<>>,
     <<"o", "u", "t", "p", "u", "t">>,
     <<"I", "N", "P", "U", "T">>,
     <<"b", "i", "d", "i", "r", "e", "c", "t", "i", "o", "n", "a", "l">>,
     <<"d", "r", "a", "i", "n">>}

\* values of class: absent, "port output", "hydraulic",
\* "Bidirectional input"
Classes ==
    {<<>>,
     <<"p", "o", "r", "t", " ", "o", "u", "t", "p", "u", "t">>,
     <<"h", "y", "d", "r", "a", "u", "l", "i", "c">>,
     <<"B", "i", "d", "i", "r", "e", "c", "t", "i", "o", "n", "a", "l", " ", "i", "n", "p", "u", "t">>}

DeterminePortType ==
    /\ \E circle_id \in CircleIds, data_type \in DataTypes, class \in Classes :
         LET circle == [data_type |-> data_type, class |-> class]
         IN  lastCall' = [op |-> "_determine_port_type", circle_id |-> circle_id,
                          circle |-> circle,
                          ret |-> _determine_port_type(circle_id, circle)]
    /\ UNCHANGED <<objs, pipes, compVars, scaleVars, connVars, transformation_history>>
    /\ UNCHANGED route

\* DEFAULT_PUMP_SVG: viewBox "0 0 7.9374998 7.9375", 30 x 30, the circles
\* Port1 (input), Port2 (output) and path1
PumpDrawing ==
    [empty |-> FALSE, well_formed |-> TRUE, den |-> 100000000,
     viewBox |-> <<0, 0, 793749980, 793750000>>, width |-> 3000, height |-> 3000,
     circles |-> <<
        [id |-> <<"P", "o", "r", "t", "1">>, position |-> <<396875000, 740833330>>,
         data_type |-> <<"i", "n", "p", "u", "t">>, class |-> << >>],
        [id |-> <<"P", "o", "r", "t", "2">>, position |-> <<396875000, 52916664>>,
         data_type |-> <<"o", "u", "t", "p", "u", "t">>, class |-> << >>],
        [id |-> <<"p", "a", "t", "h", "1">>, position |-> <<396875000, -396875000>>,
         data_type |-> << >>, class |-> << >>] >>]

\* DEFAULT_VALVE_SVG: the same frame, Port2 before Port1, no data-type
ValveDrawing ==
    [PumpDrawing EXCEPT !.circles = <<
        [id |-> <<"P", "o", "r", "t", "2">>, position |-> <<396875000, 52916664>>,
         data_type |-> << >>, class |-> << >>],
        [id |-> <<"P", "o", "r", "t", "1">>, position |-> <<396875000, 740833330>>,
         data_type |-> << >>, class |-> << >>] >>]

\* the pump's drawing cut short: not well-formed XML
BrokenDrawing == [PumpDrawing EXCEPT !.well_formed = FALSE]

\* svg_content ""
EmptyDrawing == [PumpDrawing EXCEPT !.empty = TRUE, !.well_formed = FALSE]

\* the pump's drawing with viewBox "0 0 0 0"
FlatDrawing == [PumpDrawing EXCEPT !.viewBox = <<0, 0, 0, 0>>]

\* DEFAULT_RESERVOIR_SVG without its viewBox, and with a second circle
\* Port2 whose cx is no number
ReservoirDrawing ==
    [empty |-> FALSE, well_formed |-> TRUE, den |-> 1000,
     viewBox |-> << >>, width |-> 3000, height |-> 3000,
     circles |-> <<
        [id |-> <<"P", "o", "r", "t", "2">>, position |-> << >>, data_type |-> << >>, class |-> << >>],
        [id |-> <<"P", "o", "r", "t", "1">>, position |-> <<15000, 23000>>,
         data_type |-> <<"o", "u", "t", "p", "u", "t">>, class |-> << >>] >>]

Drawings ==
    {PumpDrawing, ValveDrawing, BrokenDrawing, EmptyDrawing, FlatDrawing, ReservoirDrawing}

ParseDrawing ==
    /\ \E svg \in Drawings :
         \E ret \in parse_svg_ports(svg) :
            lastCall' = [op |-> "parse_svg_ports", svg |-> svg, ret |-> ret]
    /\ UNCHANGED <<objs, pipes, compVars, scaleVars, connVars, transformation_history>>
    /\ UNCHANGED route

\* get_port_configs for a type configured with "ports": "auto_from_svg"
\* and the drawing svg_content
get_port_configs_auto(svg_content) ==
    IF ~svg_content.empty
    THEN parse_svg_ports(svg_content)
    ELSE {[raised |-> FALSE, ports |-> << >>]}

\* HydraulicObject.create_ports and update_ports_scale on the templates
\* port_configs (positions in whole pixels)
DrawnPorts(port_configs, current_scale) ==
    [i \in 1..Len(port_configs) |->
        LET base == <<port_configs[i].position[1] \div 100,
                      port_configs[i].position[2] \div 100>>
            port == Port(port_configs[i].id, port_configs[i].type, <<Px(base[1]), Px(base[2])>>)
        IN  port_update_scale(
                [port EXCEPT !.initial_position =
                    <<base[1] * current_scale, base[2] * current_scale>>],
                current_scale)]

\* HydraulicObject.__init__ of a component of a registered type whose
\* config carries the drawing svg_content: << >> when an exception ends
\* the construction, else the component
HydraulicObjectDrawn(component_id, object_type, svg_content, global) ==
    {IF configs.raised
     THEN << >>
     ELSE LET o == HydraulicObject(component_id, object_type, << >>, global)
          IN  <<[o EXCEPT !.ports = DrawnPorts(configs.ports, o.current_scale)]>> :
        configs \in get_port_configs_auto(svg_content)}

\* the drawings whose ports lie on whole pixels
WholePixels(svg_content) ==
    \A configs \in get_port_configs_auto(svg_content) :
        \A i \in 1..Len(configs.ports) :
            configs.ports[i].position[1] % 100 = 0 /\ configs.ports[i].position[2] % 100 = 0

ConstructDrawn ==
    /\ \E svg \in {d \in Drawings : WholePixels(d)}, object_type \in {"PUMP", "RESERVOIR"} :
         \E ret \in HydraulicObjectDrawn(<<object_type, 1>>, object_type, svg, GLOBAL_SCALE) :
            lastCall' = [op |-> "HydraulicObject", svg |-> svg, ret |-> ret]
    /\ UNCHANGED <<objs, pipes, compVars, scaleVars, connVars, transformation_history>>
    /\ UNCHANGED route

NextParser ==
    \/ ConvertCoordinates
    \/ DeterminePortType
    \/ ParseDrawing
    \/ ConstructDrawn

SpecParser == Init /\ [][NextParser]_vars

\* the position returned is the proportional, origin-relative one to
\* within half a hundredth of a pixel (for arguments in thousandths)
Proportional(c, ret) ==
    c.den = 1000 =>
        \A i \in 1..2 :
            2 * Abs(ret[i] * c.svg_viewbox[i + 2]
                    - (c.svg_pos[i] - c.svg_viewbox[i]) * c.target_size[i])
                <= c.svg_viewbox[i + 2]

\* the viewBox has origin 0 and the size of the target (arguments in
\* thousandths)
SameFrame(c) ==
    /\ c.den = 1000
    /\ c.svg_viewbox[1] = 0 /\ c.svg_viewbox[2] = 0
    /\ \A i \in 1..2 : c.svg_viewbox[i + 2] * 100 = c.target_size[i] * c.den

\* C18 as stated: every conversion is proportional and origin-relative,
\* rounded to 2 decimals; the conversion of the example gives (15.0, 2.0);
\* and with the viewBox equal to the target size at origin 0, the position
\* returned is the position of the circle
C18_PositionUnchangedInSameFrame ==
    lastCall.op = "_convert_svg_to_qt_coordinates" =>
        /\ Proportional(lastCall.args, lastCall.ret)
        /\ lastCall.args = ExampleConversion => lastCall.ret = <<1500, 200>>
        /\ SameFrame(lastCall.args) =>
               \A i \in 1..2 : lastCall.ret[i] * lastCall.args.den
                                   = 100 * lastCall.args.svg_pos[i]

\* C18, amended: every conversion is proportional and origin-relative,
\* rounded to 2 decimals; the conversion of the example gives (15.0, 2.0);
\* and with the viewBox equal to the target size at origin 0, the position
\* returned is the position of the circle rounded to 2 decimals, hence
\* unchanged when the circle's coordinates have at most 2 decimals
C18_ProportionalConversion ==
    lastCall.op = "_convert_svg_to_qt_coordinates" =>
        /\ Proportional(lastCall.args, lastCall.ret)
        /\ lastCall.args = ExampleConversion => lastCall.ret = <<1500, 200>>
        /\ SameFrame(lastCall.args) =>
               \A i \in 1..2 :
                   /\ 2 * Abs(lastCall.ret[i] * lastCall.args.den
                              - 100 * lastCall.args.svg_pos[i]) <= lastCall.args.den
                   /\ (100 * lastCall.args.svg_pos[i]) % lastCall.args.den = 0
                        => lastCall.ret[i] * lastCall.args.den
                               = 100 * lastCall.args.svg_pos[i]

\* a circle at (5.125, 15) of a drawing whose viewBox is its 30 x 30
\* target has been converted: x is rounded, y is unchanged
C18_Witness ==
    /\ lastCall.op = "_convert_svg_to_qt_coordinates"
    /\ SameFrame(lastCall.args)
    /\ lastCall.args.svg_pos = <<5125, 15000>>
    /\ lastCall.ret[1] \in {512, 513}
    /\ lastCall.ret[2] = 1500


\* what each rule of the choice of a port's kind answers, as the set of
\* kinds it allows (empty when the rule gives no answer); letter case is
\* ignored in the attributes and in the identifier
ByDataType(circle) ==
    {k \in {"input", "output", "bidirectional"} : Lower(circle.data_type) = Spelling(k)}

ByClass(circle) ==
    {k \in {"input", "output", "bidirectional"} : Contains(Lower(circle.class), Spelling(k))}

ByIdKeyword(circle_id) ==
    {port_type_mapping[i][2] : i \in {j \in 1..Len(port_type_mapping) :
                                   Contains(Lower(circle_id), port_type_mapping[j][1])}}

ByIdNumber(circle_id) ==
    IF FirstNumber(circle_id) = << >> THEN {}
    ELSE IF FirstNumber(circle_id)[1] % 2 = 1 THEN {"input"} ELSE {"output"}

\* C19: the kind of a port is the answer of the first rule that gives one,
\* in the order data-type attribute, keyword in the class attribute,
\* keyword in the identifier, parity of the number in the identifier, and
\* bidirectional when no rule answers
C19_PortKindPrecedence ==
    lastCall.op = "_determine_port_type" =>
        LET circle == lastCall.circle
            circle_id == lastCall.circle_id
        IN  IF ByDataType(circle) # {} THEN lastCall.ret \in ByDataType(circle)
            ELSE IF ByClass(circle) # {} THEN lastCall.ret \in ByClass(circle)
            ELSE IF ByIdKeyword(circle_id) # {} THEN lastCall.ret \in ByIdKeyword(circle_id)
            ELSE IF ByIdNumber(circle_id) # {} THEN lastCall.ret \in ByIdNumber(circle_id)
            ELSE lastCall.ret = "bidirectional"

\* Port_Outlet with class "Bidirectional input" and no data-type: the
\* class decides against the identifier's keyword
C19_Witness ==
    /\ lastCall.op = "_determine_port_type"
    /\ ByDataType(lastCall.circle) = {}
    /\ ByClass(lastCall.circle) = {"input", "bidirectional"}
    /\ ByIdKeyword(lastCall.circle_id) = {"output"}
    /\ lastCall.ret = "input"


\* C20: parse_svg_ports lets no exception reach its caller and returns the
\* empty list for a drawing that is not well formed; a component whose
\* type carries such a drawing is constructed, without ports
C20_InvalidDrawingGivesNoPorts ==
    /\ lastCall.op = "parse_svg_ports" =>
           /\ ~lastCall.ret.raised
           /\ ~lastCall.svg.well_formed => lastCall.ret.ports = << >>
    /\ (lastCall.op = "HydraulicObject" /\ ~lastCall.svg.well_formed) =>
           /\ lastCall.ret # << >>
           /\ lastCall.ret[1].ports = << >>

\* a pump has been constructed from the drawing that is cut short
C20_Witness ==
    /\ lastCall.op = "HydraulicObject"
    /\ lastCall.svg = BrokenDrawing
    /\ lastCall.ret # << >>
    /\ lastCall.ret[1].object_type = "PUMP"
    /\ lastCall.ret[1].ports = << >>

====
